---------------------------- MODULE Spec2Model ----------------------------
(***************************************************************************)
(* Risk-of-bias decision engine of RoBAss: the RoB 2 (parallel trial, five *)
(* domains) and ROBINS-E (exposure study, seven domains) evaluators and    *)
(* their overall combinators.  Every evaluator is a pure function; the     *)
(* state machine below is a caller that invokes one operation at a time on *)
(* inputs drawn from the operation's raw input alphabet and records the    *)
(* value the operation returns.                                            *)
(***************************************************************************)
EXTENDS Integers, Sequences, FiniteSets, TLC

VARIABLES op, input, output

vars == <<op, input, output>>

(***************************************************************************)
(* Alphabets                                                               *)
(***************************************************************************)

\* valid_responses of trial domains 1 and 5 with NI left out
valid_responses_5_without_NI == {"Y", "PY", "PN", "N"}

\* valid_responses of trial domains 1 and 5 with NA added
valid_responses_5_with_NA == {"Y", "PY", "PN", "N", "NI", "NA"}

\* valid_responses of trial domains 1 and 5
valid_responses_5 == {"Y", "PY", "PN", "N", "NI"}

\* valid_responses of trial domains 2, 3 and 4
valid_responses_6 == {"Y", "PY", "PN", "N", "NI", "NA"}

\* valid_risks of the trial overall combinator
valid_risks == {"Low", "Some concerns", "High"}

\* Raw answer strings a caller may pass to a trial evaluator: the declared
\* tokens, lower-case spellings, and strings that denote no token.
RawAnswers == valid_responses_6 \cup {"y", "ni", "na", "X"}

\* Raw answer strings passed to trial domain 2 besides its declared tokens:
\* declared tokens, a lower-case spelling and a string that denotes no token.
D2RawAnswers == {"Y", "N", "na", "X"}

\* Raw risk strings a caller may pass to the trial overall combinator.
RawRisks == valid_risks \cup {" High ", "low", "Very high"}

\* Raw answer strings a caller may pass to the exposure-instrument engine:
\* long names, abbreviations in either case, and strings denoting no token.
EngineRawAnswers ==
    {"yes", "probably_no", "no_information", "not_applicable", "Y", "pn", "WN", "maybe"}

\* str.upper() on the raw answer and variant strings
Upper(s) ==
    CASE s = "y" -> "Y"
      [] s = "a" -> "A"
      [] s = "b" -> "B"
      [] s = "pn" -> "PN"
      [] s = "yes" -> "YES"
      [] s = "no" -> "NO"
      [] s = "probably_yes" -> "PROBABLY_YES"
      [] s = "probably_no" -> "PROBABLY_NO"
      [] s = "no_information" -> "NO_INFORMATION"
      [] s = "not_applicable" -> "NOT_APPLICABLE"
      [] s = "maybe" -> "MAYBE"
      [] s = "ni" -> "NI"
      [] s = "na" -> "NA"
      [] OTHER -> s

\* str.lower() on the raw answer strings of the exposure-instrument engine
\* and on the trial risk levels
Lower(s) ==
    CASE s = "Y" -> "y"
      [] s = "WN" -> "wn"
      [] s = "Low" -> "low"
      [] s = "Some concerns" -> "some concerns"
      [] s = "High" -> "high"
      [] OTHER -> s

\* str.strip() on the raw risk strings
Strip(s) == IF s = " High " THEN "High" ELSE s

\* Python values that are not plain answer tokens are records naming their
\* type and their value text; None is the absent value.
None == [type |-> "NoneType", value |-> "None"]

\* a formatted text (a step of a pathway trace, a message): the fixed text and
\* the value formatted into it
Step(text, v) == <<text, v>>

\* a raised ValueError
ValueError(msg) == [status |-> "ValueError", message |-> msg]

\* a returned (risk, reasoning) tuple; reasoning is a sequence of text parts
Verdict(risk, reasoning) == [status |-> "ok", risk |-> risk, reasoning |-> reasoning]

(***************************************************************************)
(* RoB 2 Domain 1: randomization                                           *)
(***************************************************************************)

d1_reasoning_parts(q1, q2, q3) ==
    (IF q1 \in {"N", "PN"}
        THEN <<"non-random or probably non-random sequence generation">> ELSE <<>>)
    \o (IF q2 = "NI"
        THEN <<"no information about allocation concealment">> ELSE <<>>)
    \o (IF q3 \in {"Y", "PY"}
        THEN <<"baseline imbalances suggest potential problems">> ELSE <<>>)

\* LOW RISK criteria of Domain 1 without no information on the sequence
d1_low_risk_random_sequence_only(q1, q2, q3) ==
    q2 \in {"Y", "PY"} /\ q3 \in {"N", "PN", "NI"} /\ q1 \in {"Y", "PY"}

\* LOW RISK criteria of Domain 1
d1_low_risk(q1, q2, q3) ==
    q2 \in {"Y", "PY"} /\ q3 \in {"N", "PN", "NI"} /\ q1 \in {"Y", "PY", "NI"}

\* HIGH RISK criteria of Domain 1 without the rule on non-random sequence
\* generation with baseline imbalances
d1_high_risk_concealment_only(q1, q2, q3) ==
    q2 \in {"N", "PN"} \/ (q2 = "NI" /\ q3 \in {"Y", "PY"})

\* HIGH RISK criteria of Domain 1 (both High returns)
d1_high_risk(q1, q2, q3) ==
    \/ q2 \in {"N", "PN"} \/ (q2 = "NI" /\ q3 \in {"Y", "PY"})
    \/ (q1 \in {"N", "PN"} /\ q3 \in {"Y", "PY"})

assess_domain_1_randomization(q1_sequence_random, q2_allocation_concealed, q3_baseline_imbalance) ==
    LET q1 == Upper(q1_sequence_random)
        q2 == Upper(q2_allocation_concealed)
        q3 == Upper(q3_baseline_imbalance)
    IN  IF q1 \notin valid_responses_5 \/ q2 \notin valid_responses_5 \/ q3 \notin valid_responses_5
        THEN ValueError("Invalid response. Use: Y, PY, PN, N, or NI")
        ELSE IF d1_low_risk(q1, q2, q3)
        THEN Verdict("Low", <<"Allocation sequence adequately concealed, no concerning baseline imbalances, and randomization appropriate">>)
        ELSE IF d1_high_risk(q1, q2, q3)
        THEN IF q2 \in {"N", "PN"} \/ (q2 = "NI" /\ q3 \in {"Y", "PY"})
             THEN Verdict("High", <<"Allocation sequence not adequately concealed or baseline imbalances suggest randomization problems">>)
             ELSE Verdict("High", <<"Non-random sequence generation with baseline imbalances suggesting problems">>)
        ELSE IF d1_reasoning_parts(q1, q2, q3) # <<>>
        THEN Verdict("Some concerns", <<"Some concerns due to: ">> \o d1_reasoning_parts(q1, q2, q3))
        ELSE Verdict("Some concerns", <<"Some concerns - intermediate risk scenario not meeting low or high risk criteria">>)

(***************************************************************************)
(* RoB 2 Domain 2: deviations from intended interventions                  *)
(***************************************************************************)

\* Part 1: questions 2.1 to 2.5 (intervention fidelity); returns <<risk, reason>>
assess_part1_deviations(q2_1, q2_2, q2_3, q2_4, q2_5) ==
    LET both_unaware == q2_1 \in {"N", "PN"} /\ q2_2 \in {"N", "PN"}
        either_aware == q2_1 \in {"Y", "PY", "NI"} \/ q2_2 \in {"Y", "PY", "NI"}
        no_deviations == q2_3 \in {"N", "PN"}
    IN  IF both_unaware
        THEN <<"Low", "Both participants and personnel unaware of intervention groups">>
        ELSE IF either_aware /\ no_deviations
        THEN <<"Low", "Awareness present but no deviations from intended intervention occurred">>
        ELSE IF either_aware /\ q2_3 \in {"Y", "PY"} /\ q2_4 \in {"Y", "PY", "NI"}
                /\ q2_5 \in {"N", "PN", "NI"}
        THEN <<"High", "Awareness led to outcome-affecting deviations that were unbalanced between groups">>
        ELSE IF q2_3 = "NI"
        THEN <<"Some concerns", "No information available about whether deviations occurred">>
        ELSE IF q2_3 \in {"Y", "PY"}
        THEN IF q2_4 \in {"N", "PN"}
             THEN <<"Some concerns", "Deviations occurred but were not likely to affect the outcome">>
             ELSE IF q2_4 \in {"Y", "PY"} /\ q2_5 \in {"Y", "PY"}
             THEN <<"Some concerns", "Deviations occurred and may have affected outcome but were balanced between groups">>
             ELSE <<"Some concerns", "Deviations occurred with uncertain impact or balance">>
        ELSE <<"Some concerns", "Intermediate scenario not meeting low or high risk criteria">>

\* Part 2: questions 2.6 and 2.7 (analysis approach); returns <<risk, reason>>
assess_part2_analysis(q2_6, q2_7) ==
    IF q2_6 \in {"Y", "PY"}
    THEN <<"Low", "Appropriate analysis used to estimate effect of assignment to intervention">>
    ELSE IF q2_6 \in {"N", "PN", "NI"} /\ q2_7 \in {"Y", "PY", "NI"}
    THEN <<"High", "Inappropriate analysis used with substantial impact on results">>
    ELSE IF q2_6 \in {"N", "PN", "NI"} /\ q2_7 \in {"N", "PN"}
    THEN <<"Some concerns", "Inappropriate analysis used but no substantial impact on results">>
    ELSE <<"Some concerns", "Uncertain analysis approach">>

\* the combination of the two parts (rob2_engine.py lines 79-92)
d2_combine(part1_risk, part2_risk) ==
    IF part1_risk = "Low" /\ part2_risk = "Low"
    THEN <<"Low", "Low risk in both intervention fidelity and analysis components">>
    ELSE IF part1_risk = "High" \/ part2_risk = "High"
    THEN <<"High",
           IF part1_risk = "High" /\ part2_risk = "High"
           THEN "High risk in both intervention fidelity and analysis components"
           ELSE IF part1_risk = "High"
           THEN "High risk in Part 1 (intervention fidelity)"
           ELSE "High risk in Part 2 (analysis)">>
    ELSE <<"Some concerns", "Some concerns identified but not high risk in either component">>

\* Domain 2 with the fidelity part reading answer 2.6 in the place of 2.5
assess_domain_2_deviations_crossed(q) ==
    LET inputs == [i \in 1..7 |-> Upper(q[i])]
        part1 == assess_part1_deviations(inputs[1], inputs[2], inputs[3], inputs[4], inputs[6])
        part2 == assess_part2_analysis(inputs[6], inputs[7])
        overall == d2_combine(part1[1], part2[1])
    IN  IF \E i \in 1..7 : inputs[i] \notin valid_responses_6
        THEN ValueError("Invalid response. Use: Y, PY, PN, N, NI, or NA")
        ELSE [status |-> "ok", risk |-> overall[1], reasoning |-> <<overall[2]>>,
              details |-> [part1 |-> part1[1], part2 |-> part2[1]]]

\* q is the 7-tuple of raw answers to 2.1 .. 2.7
assess_domain_2_deviations(q) ==
    LET inputs == [i \in 1..7 |-> Upper(q[i])]
        part1 == assess_part1_deviations(inputs[1], inputs[2], inputs[3], inputs[4], inputs[5])
        part2 == assess_part2_analysis(inputs[6], inputs[7])
        overall == d2_combine(part1[1], part2[1])
    IN  IF \E i \in 1..7 : inputs[i] \notin valid_responses_6
        THEN ValueError("Invalid response. Use: Y, PY, PN, N, NI, or NA")
        ELSE [status |-> "ok", risk |-> overall[1], reasoning |-> <<overall[2]>>,
              details |-> [part1 |-> part1[1], part2 |-> part2[1]]]

(***************************************************************************)
(* RoB 2 Domain 3: missing outcome data                                    *)
(***************************************************************************)

\* LOW RISK criteria of Domain 3 without the rule on question 3.3
d3_low_risk_without_3_3(q3_1, q3_2, q3_3) ==
    q3_1 \in {"Y", "PY"} \/ q3_2 \in {"Y", "PY"}

\* LOW RISK criteria of Domain 3 (any one of these conditions)
d3_low_risk(q3_1, q3_2, q3_3) ==
    q3_1 \in {"Y", "PY"} \/ q3_2 \in {"Y", "PY"} \/ q3_3 \in {"N", "PN"}

assess_domain_3_missing_data(q3_1_complete_data, q3_2_evidence_no_bias, q3_3_could_depend_true_value, q3_4_likely_depend_true_value) ==
    LET q3_1 == Upper(q3_1_complete_data)
        q3_2 == Upper(q3_2_evidence_no_bias)
        q3_3 == Upper(q3_3_could_depend_true_value)
        q3_4 == Upper(q3_4_likely_depend_true_value)
    IN  IF \E x \in {q3_1, q3_2, q3_3, q3_4} : x \notin valid_responses_6
        THEN ValueError("Invalid response. Use: Y, PY, PN, N, NI, or NA")
        ELSE IF d3_low_risk(q3_1, q3_2, q3_3)
        THEN IF q3_1 \in {"Y", "PY"}
             THEN Verdict("Low", <<"Outcome data available for all or nearly all randomized participants">>)
             ELSE IF q3_2 \in {"Y", "PY"}
             THEN Verdict("Low", <<"Evidence provided that result was not biased by missing outcome data">>)
             ELSE Verdict("Low", <<"Missingness in the outcome could not depend on its true value">>)
        ELSE IF q3_1 \in {"N", "PN", "NI"} /\ q3_2 \in {"N", "PN"}
                /\ q3_3 \in {"Y", "PY", "NI"} /\ q3_4 \in {"Y", "PY", "NI"}
        THEN Verdict("High", <<"Incomplete data with no evidence of no bias, and missingness likely depends on true value">>)
        ELSE IF q3_1 \in {"N", "PN", "NI"} /\ q3_2 \in {"N", "PN"}
                /\ q3_3 \in {"Y", "PY", "NI"} /\ q3_4 \in {"N", "PN"}
        THEN Verdict("Some concerns", <<"Incomplete data with potential for bias, but missingness unlikely to depend on true value">>)
        ELSE IF q3_2 = "NI"
        THEN IF q3_3 \in {"N", "PN"}
             THEN Verdict("Low", <<"No information about bias evidence, but missingness could not depend on true value">>)
             ELSE Verdict("Some concerns", <<"No information about bias evidence and uncertain relationship between missingness and true value">>)
        ELSE Verdict("Some concerns", <<"Intermediate scenario with some missing data and uncertain bias potential">>)

(***************************************************************************)
(* RoB 2 Domain 4: measurement of the outcome                              *)
(***************************************************************************)

\* HIGH RISK criteria of Domain 4 without the rule on question 4.2
d4_high_risk_without_4_2(q4_1, q4_2, q4_3, q4_4, q4_5) ==
    \/ q4_1 \in {"Y", "PY"}
    \/ (q4_3 \in {"Y", "PY", "NI"} /\ q4_4 \in {"Y", "PY", "NI"} /\ q4_5 \in {"Y", "PY", "NI"})

\* HIGH RISK criteria of Domain 4 (any one of these conditions)
d4_high_risk(q4_1, q4_2, q4_3, q4_4, q4_5) ==
    \/ q4_1 \in {"Y", "PY"}
    \/ q4_2 \in {"Y", "PY"}
    \/ (q4_3 \in {"Y", "PY", "NI"} /\ q4_4 \in {"Y", "PY", "NI"} /\ q4_5 \in {"Y", "PY", "NI"})

assess_domain_4_outcome_measurement(q4_1_method_inappropriate, q4_2_differ_between_groups, q4_3_assessors_aware, q4_4_could_be_influenced, q4_5_likely_influenced) ==
    LET q4_1 == Upper(q4_1_method_inappropriate)
        q4_2 == Upper(q4_2_differ_between_groups)
        q4_3 == Upper(q4_3_assessors_aware)
        q4_4 == Upper(q4_4_could_be_influenced)
        q4_5 == Upper(q4_5_likely_influenced)
        method_appropriate == q4_1 \in {"N", "PN", "NI"}
        measurement_consistent == q4_2 \in {"N", "PN"}
        assessors_blinded == q4_3 \in {"N", "PN"}
        cannot_be_influenced == q4_3 \in {"Y", "PY", "NI"} /\ q4_4 \in {"N", "PN"}
    IN  IF \E x \in {q4_1, q4_2, q4_3, q4_4, q4_5} : x \notin valid_responses_6
        THEN ValueError("Invalid response. Use: Y, PY, PN, N, NI, or NA")
        ELSE IF d4_high_risk(q4_1, q4_2, q4_3, q4_4, q4_5)
        THEN IF q4_1 \in {"Y", "PY"}
             THEN Verdict("High", <<"Inappropriate method of measuring the outcome">>)
             ELSE IF q4_2 \in {"Y", "PY"}
             THEN Verdict("High", <<"Measurement or ascertainment of outcome differed between intervention groups">>)
             ELSE Verdict("High", <<"Assessment likely influenced by knowledge of intervention assignment">>)
        ELSE IF method_appropriate /\ measurement_consistent /\ (assessors_blinded \/ cannot_be_influenced)
        THEN IF assessors_blinded
             THEN Verdict("Low", <<"Appropriate measurement method, consistent between groups, and assessors blinded">>)
             ELSE Verdict("Low", <<"Appropriate measurement method, consistent between groups, and assessment cannot be influenced by knowledge">>)
        ELSE IF method_appropriate /\ measurement_consistent /\ q4_3 \in {"Y", "PY", "NI"}
                /\ q4_4 \in {"Y", "PY", "NI"} /\ q4_5 \in {"N", "PN"}
        THEN Verdict("Some concerns", <<"Potential for assessment bias exists but unlikely to have influenced results">>)
        ELSE IF method_appropriate /\ q4_2 = "NI" /\ (assessors_blinded \/ cannot_be_influenced)
        THEN IF assessors_blinded
             THEN Verdict("Some concerns", <<"No information about differential measurement, but assessors were blinded">>)
             ELSE Verdict("Some concerns", <<"No information about differential measurement, but assessment cannot be influenced">>)
        ELSE IF method_appropriate /\ q4_2 = "NI"
        THEN Verdict("Some concerns", <<"No information about whether measurement differed between groups">>)
        ELSE Verdict("Some concerns", <<"Intermediate scenario with some potential for measurement bias">>)

(***************************************************************************)
(* RoB 2 Domain 5: selection of the reported result                        *)
(***************************************************************************)

\* LOW RISK criteria of Domain 5 without the pre-specified plan
d5_low_risk_without_plan(q5_1, q5_2, q5_3) ==
    q5_2 \in {"N", "PN"} /\ q5_3 \in {"N", "PN"}

\* LOW RISK criteria of Domain 5
d5_low_risk(q5_1, q5_2, q5_3) ==
    q5_1 \in {"Y", "PY"} /\ q5_2 \in {"N", "PN"} /\ q5_3 \in {"N", "PN"}

assess_domain_5_selective_reporting(q5_1_accordance_with_plan, q5_2_selected_from_multiple_outcomes, q5_3_selected_from_multiple_analyses) ==
    LET q5_1 == Upper(q5_1_accordance_with_plan)
        q5_2 == Upper(q5_2_selected_from_multiple_outcomes)
        q5_3 == Upper(q5_3_selected_from_multiple_analyses)
    IN  IF \E x \in {q5_1, q5_2, q5_3} : x \notin valid_responses_5
        THEN ValueError("Invalid response. Use: Y, PY, PN, N, or NI")
        ELSE IF q5_2 \in {"Y", "PY"}
        THEN Verdict("High", <<"Result likely selected from multiple eligible outcome measurements based on results">>)
        ELSE IF q5_3 \in {"Y", "PY"}
        THEN Verdict("High", <<"Result likely selected from multiple eligible analyses based on results">>)
        ELSE IF d5_low_risk(q5_1, q5_2, q5_3)
        THEN Verdict("Low", <<"Analysis according to pre-specified plan with no evidence of selective reporting">>)
        ELSE IF q5_1 \in {"N", "PN", "NI"} /\ q5_2 \in {"N", "PN"} /\ q5_3 \in {"N", "PN"}
        THEN Verdict("Some concerns", <<"No pre-specified analysis plan, but no evidence of selective reporting">>)
        ELSE IF \/ (q5_2 = "NI" /\ q5_3 \in {"N", "PN"})
                \/ (q5_2 \in {"N", "PN"} /\ q5_3 = "NI")
                \/ (q5_2 = "NI" /\ q5_3 = "NI")
        THEN Verdict("Some concerns", <<"Insufficient information about potential selective reporting">>)
        ELSE Verdict("Some concerns", <<"Unclear evidence regarding selective reporting practices">>)

(***************************************************************************)
(* RoB 2 overall combinator                                                *)
(***************************************************************************)

domain_names ==
    << "Domain 1 (Randomization)", "Domain 2 (Deviations)", "Domain 3 (Missing data)",
       "Domain 4 (Outcome measurement)", "Domain 5 (Selective reporting)" >>

\* list.count: the number of positions of risks holding v
count(risks, v) == Cardinality({i \in DOMAIN risks : risks[i] = v})

\* [domain_names[i] for i, risk in enumerate(risks) if risk == v]
names_with(risks, v) ==
    LET F[i \in 0..Len(risks)] ==
            IF i = 0 THEN <<>>
            ELSE IF risks[i] = v THEN Append(F[i-1], domain_names[i]) ELSE F[i-1]
    IN  F[Len(risks)]

\* the RoB 2 overall criteria with the escalation threshold at four
rob2_overall_criteria_escalate_at_4(high_count, some_concerns_count) ==
    IF high_count >= 1 THEN "high"
    ELSE IF some_concerns_count = 0 THEN "low"
    ELSE IF some_concerns_count >= 4 THEN "escalated"
    ELSE "some"

\* the RoB 2 overall criteria escalating at exactly three Some concerns
rob2_overall_criteria_escalate_only_at_3(high_count, some_concerns_count) ==
    IF high_count >= 1 THEN "high"
    ELSE IF some_concerns_count = 0 THEN "low"
    ELSE IF some_concerns_count = 3 THEN "escalated"
    ELSE "some"

\* the branch of the RoB 2 overall criteria taken for the two counts
rob2_overall_criteria(high_count, some_concerns_count) ==
    IF high_count >= 1 THEN "high"
    ELSE IF some_concerns_count = 0 THEN "low"
    ELSE IF some_concerns_count >= 3 THEN "escalated"
    ELSE "some"

\* d is the 5-tuple of raw domain risk strings
assess_overall_rob2(d) ==
    LET risks == [i \in 1..5 |-> Strip(d[i])]
        high_count == count(risks, "High")
        some_concerns_count == count(risks, "Some concerns")
    IN  IF \E i \in 1..5 : risks[i] \notin valid_risks
        THEN ValueError("All domain risks must be: 'Low', 'Some concerns', or 'High'")
        ELSE IF rob2_overall_criteria(high_count, some_concerns_count) = "high"
        THEN Verdict("High", <<"High risk of bias in: ">> \o names_with(risks, "High"))
        ELSE IF rob2_overall_criteria(high_count, some_concerns_count) = "low"
        THEN Verdict("Low", <<"Low risk of bias across all domains">>)
        ELSE IF rob2_overall_criteria(high_count, some_concerns_count) = "escalated"
        THEN Verdict("High", <<"Some concerns in multiple domains substantially lower confidence: ">>
                               \o names_with(risks, "Some concerns"))
        ELSE Verdict("Some concerns", <<"Some concerns identified in: ">>
                                        \o names_with(risks, "Some concerns"))

(***************************************************************************)
(* RoB 2 overall combinator with assessor override                         *)
(* (rob2_parallel/rob2_overall.py)                                         *)
(***************************************************************************)

\* domain_summary: the name and the stripped risk of every domain
parallel_domain_summary(risks) ==
    [i \in 1..5 |-> [name |-> domain_names[i], risk |-> risks[i]]]

\* the override test without the comparison with the computed risk
parallel_override_applies_even_if_equal(assessor_override, overall_risk) ==
    /\ assessor_override # None
    /\ assessor_override.value # ""
    /\ assessor_override.value \in valid_risks

\* the two conditions under which the assessor override replaces the result;
\* assessor_override is None or a str
parallel_override_applies(assessor_override, overall_risk) ==
    /\ assessor_override # None
    /\ assessor_override.value # ""
    /\ assessor_override.value \in valid_risks
    /\ assessor_override.value # overall_risk

\* assess_overall_rob2 of rob2_parallel: validation, counts and criteria are
\* the statements of rob2_engine.assess_overall_rob2; then the override
parallel_assess_overall_rob2(d, assessor_override, override_justification) ==
    LET computed == assess_overall_rob2(d)
        risks == [i \in 1..5 |-> Strip(d[i])]
    IN  IF computed.status = "ValueError" THEN computed
        ELSE IF parallel_override_applies(assessor_override, computed.risk)
        THEN [status |-> "ok",
              risk |-> assessor_override.value,
              reasoning |-> Append(computed.reasoning,
                  Step(" [Override: Changed from original_risk to assessor_override - override_justification]",
                       <<computed.risk, assessor_override.value, override_justification>>)),
              domain_summary |-> parallel_domain_summary(risks)]
        ELSE [status |-> "ok",
              risk |-> computed.risk,
              reasoning |-> computed.reasoning,
              domain_summary |-> parallel_domain_summary(risks)]

(***************************************************************************)
(* Complete trial assessment (rob2_engine.py, calculate_rob2_assessment)   *)
(***************************************************************************)

\* the question keys calculate_rob2_assessment looks up, per domain
rob2_question_keys ==
    << << "1.1", "1.2", "1.3" >>,
       << "2.1", "2.2", "2.3", "2.4", "2.5", "2.6", "2.7" >>,
       << "3.1", "3.2", "3.3", "3.4" >>,
       << "4.1", "4.2", "4.3", "4.4", "4.5" >>,
       << "5.1", "5.2", "5.3" >> >>

\* the mark of a question key that is not in assessment_responses
KeyAbsent == "<key absent>"

\* every question key; assessment_responses maps an absent key to KeyAbsent
Rob2Questions == UNION {{rob2_question_keys[i][k] : k \in DOMAIN rob2_question_keys[i]} : i \in 1..5}

\* the keys of the results dictionary
rob2_result_keys == {"domain_1", "domain_2", "domain_3", "domain_4", "domain_5", "overall"}

\* all(key in assessment_responses for key in [...]) for domain i
rob2_all_keys_in(assessment_responses, i) ==
    \A k \in DOMAIN rob2_question_keys[i] : assessment_responses[rob2_question_keys[i][k]] # KeyAbsent

\* the answers of domain i in question order
rob2_domain_answers(assessment_responses, i) ==
    [k \in DOMAIN rob2_question_keys[i] |-> assessment_responses[rob2_question_keys[i][k]]]

\* the evaluator call made for domain i
rob2_domain_call(assessment_responses, i) ==
    LET a == rob2_domain_answers(assessment_responses, i)
    IN  CASE i = 1 -> assess_domain_1_randomization(a[1], a[2], a[3])
          [] i = 2 -> assess_domain_2_deviations(a)
          [] i = 3 -> assess_domain_3_missing_data(a[1], a[2], a[3], a[4])
          [] i = 4 -> assess_domain_4_outcome_measurement(a[1], a[2], a[3], a[4], a[5])
          [] i = 5 -> assess_domain_5_selective_reporting(a[1], a[2], a[3])

\* results['domain_i'] built from the evaluator's return value
rob2_domain_entry(verdict, i) ==
    IF i = 2
    THEN [risk |-> verdict.risk, reasoning |-> verdict.reasoning, details |-> verdict.details]
    ELSE [risk |-> verdict.risk, reasoning |-> verdict.reasoning]

\* the arguments of the overall call with domain 5 replaced by domain 1
rob2_overall_args_without_5(risks) == [risks EXCEPT ![5] = risks[1]]

\* the arguments of the overall call: the five domain risks in order
rob2_overall_args(risks) == risks

\* calculate_rob2_assessment; a ValueError of an evaluator leaves the function
calculate_rob2_assessment(assessment_responses) ==
    LET present == {i \in 1..5 : rob2_all_keys_in(assessment_responses, i)}
        verdict(i) == rob2_domain_call(assessment_responses, i)
        failing == {i \in present : verdict(i).status = "ValueError"}
        first_failing == CHOOSE i \in failing : \A j \in failing : i <= j
        overall == assess_overall_rob2(rob2_overall_args([i \in 1..5 |-> verdict(i).risk]))
        results ==
            [k \in rob2_result_keys |->
                CASE k = "domain_1" -> IF 1 \in present THEN rob2_domain_entry(verdict(1), 1) ELSE None
                  [] k = "domain_2" -> IF 2 \in present THEN rob2_domain_entry(verdict(2), 2) ELSE None
                  [] k = "domain_3" -> IF 3 \in present THEN rob2_domain_entry(verdict(3), 3) ELSE None
                  [] k = "domain_4" -> IF 4 \in present THEN rob2_domain_entry(verdict(4), 4) ELSE None
                  [] k = "domain_5" -> IF 5 \in present THEN rob2_domain_entry(verdict(5), 5) ELSE None
                  [] k = "overall" ->
                        IF present = 1..5
                        THEN [risk |-> overall.risk, reasoning |-> overall.reasoning]
                        ELSE None]
    IN  IF failing # {} THEN verdict(first_failing)
        ELSE [status |-> "ok", results |-> results]

\* answer sets of domains 2 to 5 a caller submits: for each domain one set per
\* verdict, the documented all-Low scenario, and one set with a key absent
rob2_answer_sets ==
    << {},
       { << "N", "N", "NA", "NA", "NA", "Y", "NA" >>,
         << "Y", "Y", "NI", "NA", "NA", "Y", "NA" >>,
         << "Y", "Y", "Y", "Y", "N", "Y", "NA" >>,
         << "N", "N", "NA", "NA", "NA", "Y", KeyAbsent >> },
       { << "Y", "NA", "NA", "NA" >>,
         << "N", "N", "Y", "N" >>,
         << "N", "N", "Y", "Y" >>,
         << KeyAbsent, "NA", "NA", "NA" >> },
       { << "N", "N", "N", "NA", "NA" >>,
         << "N", "N", "Y", "Y", "N" >>,
         << "Y", "N", "N", "NA", "NA" >>,
         << "N", "N", KeyAbsent, KeyAbsent, KeyAbsent >> },
       { << "Y", "N", "N" >>,
         << "NI", "N", "N" >>,
         << "Y", "Y", "N" >>,
         << "Y", "N", "X" >>,
         << KeyAbsent, KeyAbsent, KeyAbsent >> } >>

(***************************************************************************)
(* ROBINS-E overall assessment (robins_e_overall.py)                       *)
(***************************************************************************)

\* a str object
Str(s) == [type |-> "str", value |-> s]

\* class DomainRisk(Enum)
DomainRisk_LOW_RISK == [type |-> "DomainRisk", value |-> "Low risk of bias"]

DomainRisk_SOME_CONCERNS == [type |-> "DomainRisk", value |-> "Some concerns"]

DomainRisk_HIGH_RISK == [type |-> "DomainRisk", value |-> "High risk of bias"]

DomainRisk_VERY_HIGH_RISK == [type |-> "DomainRisk", value |-> "Very high risk of bias"]

DomainRisk == {DomainRisk_LOW_RISK, DomainRisk_SOME_CONCERNS, DomainRisk_HIGH_RISK, DomainRisk_VERY_HIGH_RISK}

\* class OverallRisk(Enum)
OverallRisk_LOW_RISK_EXCEPT_CONFOUNDING == [type |-> "OverallRisk", value |-> "Low risk of bias except for concerns about uncontrolled confounding"]

OverallRisk_SOME_CONCERNS == [type |-> "OverallRisk", value |-> "Some concerns"]

OverallRisk_HIGH_RISK == [type |-> "OverallRisk", value |-> "High risk of bias"]

OverallRisk_VERY_HIGH_RISK == [type |-> "OverallRisk", value |-> "Very high risk of bias"]

OverallRisk == {OverallRisk_LOW_RISK_EXCEPT_CONFOUNDING, OverallRisk_SOME_CONCERNS, OverallRisk_HIGH_RISK, OverallRisk_VERY_HIGH_RISK}

\* class ConclusionThreat(Enum)
ConclusionThreat_YES == [type |-> "ConclusionThreat", value |-> "Yes"]

ConclusionThreat_NO == [type |-> "ConclusionThreat", value |-> "No"]

ConclusionThreat_CANNOT_TELL == [type |-> "ConclusionThreat", value |-> "Cannot tell"]

ConclusionThreat == {ConclusionThreat_YES, ConclusionThreat_NO, ConclusionThreat_CANNOT_TELL}

\* the keys of self.domain_names, in dictionary order
domain_keys == << "domain_1", "domain_2", "domain_3", "domain_4", "domain_5", "domain_6", "domain_7" >>

DomainKeys == {domain_keys[i] : i \in 1..7}

\* A dictionary over the domain keys is a function on DomainKeys whose value
\* is None at a key the dictionary does not hold.
\* [key for key, value in d.items() if P]: the keys of K, in dictionary order
keys_in(K) ==
    LET F[i \in 0..7] ==
            IF i = 0 THEN <<>>
            ELSE IF domain_keys[i] \in K THEN Append(F[i-1], domain_keys[i]) ELSE F[i-1]
    IN  F[7]

\* the phrases of _normalize_risk_level found in risk_input.lower().strip()
risk_phrases(s) ==
    CASE s \in {"Low risk of bias", "low risk of bias ",
                "Low risk of bias (except for concerns about uncontrolled confounding)",
                "Low risk of bias except for concerns about uncontrolled confounding"}
              -> {"low risk"}
      [] s \in {"low_risk", "LOW_RISK"} -> {"low_risk"}
      [] s \in {"Some concerns", "some concerns"} -> {"some concerns"}
      [] s \in {"some_concerns", "SOME_CONCERNS"} -> {"some_concerns"}
      [] s \in {"Very high risk of bias", "very high risk of bias"} -> {"very high risk", "high risk"}
      [] s \in {"very_high_risk", "VERY_HIGH_RISK"} -> {"very_high_risk", "high_risk"}
      [] s \in {"High risk of bias", "high risk of bias"} -> {"high risk"}
      [] s \in {"high_risk", "HIGH_RISK"} -> {"high_risk"}
      [] OTHER -> {}

\* the str branch with the 'high risk' phrases tested before 'very high risk'
normalize_risk_str_high_before_very_high(s) ==
    IF risk_phrases(s) \cap {"low risk", "low_risk"} # {} THEN DomainRisk_LOW_RISK
    ELSE IF risk_phrases(s) \cap {"some concerns", "some_concerns"} # {} THEN DomainRisk_SOME_CONCERNS
    ELSE IF risk_phrases(s) \cap {"high risk", "high_risk"} # {} THEN DomainRisk_HIGH_RISK
    ELSE IF risk_phrases(s) \cap {"very high risk", "very_high_risk"} # {} THEN DomainRisk_VERY_HIGH_RISK
    ELSE None

\* the str branch of _normalize_risk_level; None when no phrase is found
normalize_risk_str(s) ==
    IF risk_phrases(s) \cap {"low risk", "low_risk"} # {} THEN DomainRisk_LOW_RISK
    ELSE IF risk_phrases(s) \cap {"some concerns", "some_concerns"} # {} THEN DomainRisk_SOME_CONCERNS
    ELSE IF risk_phrases(s) \cap {"very high risk", "very_high_risk"} # {} THEN DomainRisk_VERY_HIGH_RISK
    ELSE IF risk_phrases(s) \cap {"high risk", "high_risk"} # {} THEN DomainRisk_HIGH_RISK
    ELSE None

\* _normalize_risk_level: a DomainRisk, or the raised ValueError
_normalize_risk_level(risk_input) ==
    IF risk_input.type = "DomainRisk" THEN risk_input
    ELSE IF risk_input.type = "str" /\ normalize_risk_str(risk_input.value) # None
    THEN normalize_risk_str(risk_input.value)
    ELSE IF risk_input.type \notin {"str", "NoneType"} /\ normalize_risk_str(risk_input.value) # None
    THEN normalize_risk_str(risk_input.value)
    ELSE [type |-> "ValueError", value |-> "Cannot normalize risk level"]

\* Counter(normalized_assessments.values())
risk_counter(domain_assessments) ==
    [r \in DomainRisk |-> Cardinality({k \in DomainKeys : domain_assessments[k] = r})]

\* _determine_overall_risk with the additive thresholds exchanged
_determine_overall_risk_thresholds_swapped(domain_assessments, risk_counts) ==
    LET with(r) == keys_in({k \in DomainKeys : domain_assessments[k] = r})
    IN  IF risk_counts[DomainRisk_VERY_HIGH_RISK] >= 1
        THEN [overall_risk |-> OverallRisk_VERY_HIGH_RISK,
              rationale |-> "at_least_one_very_high_risk_domain",
              contributing_domains |-> with(DomainRisk_VERY_HIGH_RISK),
              details |-> [very_high_count |-> risk_counts[DomainRisk_VERY_HIGH_RISK]]]
        ELSE IF risk_counts[DomainRisk_HIGH_RISK] >= 4
        THEN [overall_risk |-> OverallRisk_VERY_HIGH_RISK,
              rationale |-> "several_high_risk_domains_additive",
              contributing_domains |-> with(DomainRisk_HIGH_RISK),
              details |-> [high_count |-> risk_counts[DomainRisk_HIGH_RISK]]]
        ELSE IF risk_counts[DomainRisk_HIGH_RISK] >= 1
        THEN [overall_risk |-> OverallRisk_HIGH_RISK,
              rationale |-> "at_least_one_high_risk_domain",
              contributing_domains |-> with(DomainRisk_HIGH_RISK),
              details |-> [high_count |-> risk_counts[DomainRisk_HIGH_RISK]]]
        ELSE IF risk_counts[DomainRisk_SOME_CONCERNS] >= 3
        THEN [overall_risk |-> OverallRisk_HIGH_RISK,
              rationale |-> "several_some_concerns_domains_additive",
              contributing_domains |-> with(DomainRisk_SOME_CONCERNS),
              details |-> [some_concerns_count |-> risk_counts[DomainRisk_SOME_CONCERNS]]]
        ELSE IF risk_counts[DomainRisk_SOME_CONCERNS] >= 1
        THEN [overall_risk |-> OverallRisk_SOME_CONCERNS,
              rationale |-> "at_least_one_some_concerns_domain",
              contributing_domains |-> with(DomainRisk_SOME_CONCERNS),
              details |-> [some_concerns_count |-> risk_counts[DomainRisk_SOME_CONCERNS]]]
        ELSE IF /\ domain_assessments["domain_1"] = DomainRisk_LOW_RISK
                /\ \A k \in DomainKeys \ {"domain_1"} : domain_assessments[k] = DomainRisk_LOW_RISK
        THEN [overall_risk |-> OverallRisk_LOW_RISK_EXCEPT_CONFOUNDING,
              rationale |-> "low_risk_all_domains_confounding_caveat",
              contributing_domains |-> <<>>,
              details |-> [all_low_risk |-> TRUE]]
        ELSE [overall_risk |-> OverallRisk_SOME_CONCERNS,
              rationale |-> "unexpected_risk_combination",
              contributing_domains |-> <<>>,
              details |-> [risk_counts |-> risk_counts]]

\* _determine_overall_risk: the combination rules over the seven normalized
\* domain assessments
_determine_overall_risk(domain_assessments, risk_counts) ==
    LET with(r) == keys_in({k \in DomainKeys : domain_assessments[k] = r})
    IN  IF risk_counts[DomainRisk_VERY_HIGH_RISK] >= 1
        THEN [overall_risk |-> OverallRisk_VERY_HIGH_RISK,
              rationale |-> "at_least_one_very_high_risk_domain",
              contributing_domains |-> with(DomainRisk_VERY_HIGH_RISK),
              details |-> [very_high_count |-> risk_counts[DomainRisk_VERY_HIGH_RISK]]]
        ELSE IF risk_counts[DomainRisk_HIGH_RISK] >= 3
        THEN [overall_risk |-> OverallRisk_VERY_HIGH_RISK,
              rationale |-> "several_high_risk_domains_additive",
              contributing_domains |-> with(DomainRisk_HIGH_RISK),
              details |-> [high_count |-> risk_counts[DomainRisk_HIGH_RISK]]]
        ELSE IF risk_counts[DomainRisk_HIGH_RISK] >= 1
        THEN [overall_risk |-> OverallRisk_HIGH_RISK,
              rationale |-> "at_least_one_high_risk_domain",
              contributing_domains |-> with(DomainRisk_HIGH_RISK),
              details |-> [high_count |-> risk_counts[DomainRisk_HIGH_RISK]]]
        ELSE IF risk_counts[DomainRisk_SOME_CONCERNS] >= 4
        THEN [overall_risk |-> OverallRisk_HIGH_RISK,
              rationale |-> "several_some_concerns_domains_additive",
              contributing_domains |-> with(DomainRisk_SOME_CONCERNS),
              details |-> [some_concerns_count |-> risk_counts[DomainRisk_SOME_CONCERNS]]]
        ELSE IF risk_counts[DomainRisk_SOME_CONCERNS] >= 1
        THEN [overall_risk |-> OverallRisk_SOME_CONCERNS,
              rationale |-> "at_least_one_some_concerns_domain",
              contributing_domains |-> with(DomainRisk_SOME_CONCERNS),
              details |-> [some_concerns_count |-> risk_counts[DomainRisk_SOME_CONCERNS]]]
        ELSE IF /\ domain_assessments["domain_1"] = DomainRisk_LOW_RISK
                /\ \A k \in DomainKeys \ {"domain_1"} : domain_assessments[k] = DomainRisk_LOW_RISK
        THEN [overall_risk |-> OverallRisk_LOW_RISK_EXCEPT_CONFOUNDING,
              rationale |-> "low_risk_all_domains_confounding_caveat",
              contributing_domains |-> <<>>,
              details |-> [all_low_risk |-> TRUE]]
        ELSE [overall_risk |-> OverallRisk_SOME_CONCERNS,
              rationale |-> "unexpected_risk_combination",
              contributing_domains |-> <<>>,
              details |-> [risk_counts |-> risk_counts]]

\* assess_overall_bias_risk: validate and normalize the domain assessments,
\* then combine them
assess_overall_bias_risk(domain_assessments) ==
    LET present == {k \in DomainKeys : domain_assessments[k] # None}
        invalid == {i \in 1..7 : /\ domain_keys[i] \in present
                                 /\ _normalize_risk_level(domain_assessments[domain_keys[i]]).type = "ValueError"}
        first_invalid == CHOOSE i \in invalid : \A j \in invalid : i <= j
        normalized_assessments ==
            [k \in DomainKeys |-> IF k \in present
                                  THEN _normalize_risk_level(domain_assessments[k]) ELSE None]
        missing_domains == keys_in(DomainKeys \ present)
        risk_counts == risk_counter(normalized_assessments)
        overall_assessment == _determine_overall_risk(normalized_assessments, risk_counts)
    IN  IF invalid # {}
        THEN [overall_risk |-> OverallRisk_SOME_CONCERNS,
              rationale |-> <<"invalid_risk_level_for_", domain_keys[first_invalid]>>,
              error |-> _normalize_risk_level(domain_assessments[domain_keys[first_invalid]]).value,
              domain_assessments |-> domain_assessments]
        ELSE IF missing_domains # <<>>
        THEN [overall_risk |-> OverallRisk_SOME_CONCERNS,
              rationale |-> "incomplete_domain_assessments",
              missing_domains |-> missing_domains,
              domain_assessments |-> normalized_assessments]
        ELSE [overall_risk |-> overall_assessment.overall_risk,
              rationale |-> overall_assessment.rationale,
              domain_assessments |-> normalized_assessments,
              risk_counts |-> risk_counts,
              contributing_domains |-> overall_assessment.contributing_domains,
              assessment_details |-> overall_assessment.details]

\* the empty-dictionary test left out
no_threat_assessments_never(domain_threat_assessments) == FALSE

\* not domain_threat_assessments: the dictionary holds no judgment
no_threat_assessments(domain_threat_assessments) ==
    \A k \in DomainKeys : domain_threat_assessments[k] = None

\* assess_conclusion_threat over a dictionary of per-domain threat judgments
assess_conclusion_threat(domain_threat_assessments) ==
    LET present == {k \in DomainKeys : domain_threat_assessments[k] # None}
        threat_counts == [t \in ConclusionThreat |->
                             Cardinality({k \in present : domain_threat_assessments[k] = t})]
        with(t) == keys_in({k \in present : domain_threat_assessments[k] = t})
    IN  IF no_threat_assessments(domain_threat_assessments)
        THEN [conclusion_threat |-> ConclusionThreat_CANNOT_TELL,
              rationale |-> "no_threat_assessments_provided",
              domain_threats |-> domain_threat_assessments]
        ELSE IF threat_counts[ConclusionThreat_YES] >= 1
        THEN [conclusion_threat |-> ConclusionThreat_YES,
              rationale |-> "bias_threatens_conclusions_in_any_domain",
              threatening_domains |-> with(ConclusionThreat_YES),
              domain_threats |-> domain_threat_assessments]
        ELSE IF threat_counts[ConclusionThreat_NO] >= 1 /\ threat_counts[ConclusionThreat_YES] = 0
        THEN [conclusion_threat |-> ConclusionThreat_NO,
              rationale |-> "bias_does_not_threaten_conclusions",
              domain_threats |-> domain_threat_assessments]
        ELSE [conclusion_threat |-> ConclusionThreat_CANNOT_TELL,
              rationale |-> "uncertain_threat_assessment",
              uncertain_domains |-> with(ConclusionThreat_CANNOT_TELL),
              domain_threats |-> domain_threat_assessments]

(***************************************************************************)
(* ROBINS-E Domain 7: reported results (robins_e_domain7.py)               *)
(***************************************************************************)

\* class Response(Enum) of robins_e_domain7
D7_Response_of(v) == [type |-> "robins_e_domain7.Response", value |-> v]

D7_Response == {D7_Response_of(v) : v \in {"Y", "PY", "N", "PN", "NI"}}

\* class RiskLevel(Enum) of robins_e_domain7
D7_RiskLevel_of(v) == [type |-> "robins_e_domain7.RiskLevel", value |-> v]

D7_LOW_RISK == D7_RiskLevel_of("Low risk of bias")

D7_SOME_CONCERNS == D7_RiskLevel_of("Some concerns")

D7_HIGH_RISK == D7_RiskLevel_of("High risk of bias")

D7_VERY_HIGH_RISK == D7_RiskLevel_of("Very high risk of bias")

\* self.selection_questions
D7_selection_questions ==
    << "q7_2_multiple_exposure_measurements", "q7_3_multiple_outcome_measurements",
       "q7_4_multiple_analyses", "q7_5_multiple_subgroups" >>

\* the keys of self.questions
D7_questions == {"q7_1_result_according_plan"} \cup {D7_selection_questions[i] : i \in 1..4}

D7_is_positive_response(response) == response \in {D7_Response_of("Y"), D7_Response_of("PY")}

D7_is_negative_response(response) == response \in {D7_Response_of("N"), D7_Response_of("PN")}

D7_is_no_information(response) == response = D7_Response_of("NI")

\* the combination rules of _assess_selection_bias with the High band ending
\* at one affirmative answer
D7_combination_rule_high_band_1(positive_count, ni_count) ==
    IF positive_count = 0 /\ ni_count = 0 THEN <<D7_LOW_RISK, "no_selective_reporting">>
    ELSE IF positive_count = 0 /\ ni_count > 0 THEN <<D7_SOME_CONCERNS, "unclear_selective_reporting">>
    ELSE IF positive_count <= 1 THEN <<D7_HIGH_RISK, "moderate_selective_reporting">>
    ELSE <<D7_VERY_HIGH_RISK, "extensive_selective_reporting">>

\* the combination rules of _assess_selection_bias: <<risk_level, rationale>>
D7_combination_rule(positive_count, ni_count) ==
    IF positive_count = 0 /\ ni_count = 0 THEN <<D7_LOW_RISK, "no_selective_reporting">>
    ELSE IF positive_count = 0 /\ ni_count > 0 THEN <<D7_SOME_CONCERNS, "unclear_selective_reporting">>
    ELSE IF positive_count <= 2 THEN <<D7_HIGH_RISK, "moderate_selective_reporting">>
    ELSE <<D7_VERY_HIGH_RISK, "extensive_selective_reporting">>

\* _assess_selection_bias over questions 7.2 .. 7.5
D7_assess_selection_bias(responses) ==
    LET answered == {i \in 1..4 : responses[D7_selection_questions[i]] # None}
        selection_responses ==
            [q \in {D7_selection_questions[i] : i \in answered} |-> responses[q]]
        positive_count ==
            Cardinality({i \in answered : D7_is_positive_response(responses[D7_selection_questions[i]])})
        ni_count ==
            Cardinality({i \in answered : D7_is_no_information(responses[D7_selection_questions[i]])})
        negative_count ==
            Cardinality({i \in answered : D7_is_negative_response(responses[D7_selection_questions[i]])})
        missing_questions ==
            SelectSeq(D7_selection_questions, LAMBDA q : responses[q] = None)
        rule == D7_combination_rule(positive_count, ni_count)
    IN  IF Cardinality(answered) < Len(D7_selection_questions)
        THEN [risk_level |-> D7_SOME_CONCERNS,
              rationale |-> "incomplete_selection_assessment",
              positive_count |-> positive_count,
              ni_count |-> ni_count,
              negative_count |-> negative_count,
              missing_questions |-> missing_questions,
              selection_responses |-> selection_responses]
        ELSE [risk_level |-> rule[1],
              rationale |-> rule[2],
              positive_count |-> positive_count,
              ni_count |-> ni_count,
              negative_count |-> negative_count,
              missing_questions |-> <<>>,
              selection_responses |-> selection_responses]

\* assess_reported_results_bias
assess_reported_results_bias(responses) ==
    LET q7_1 == responses["q7_1_result_according_plan"]
        selection_assessment == D7_assess_selection_bias(responses)
        pathway1 == <<Step("Q7.1 Result reported according to analysis plan? -> ", q7_1.value)>>
    IN  IF q7_1 = None
        THEN [risk_level |-> D7_SOME_CONCERNS,
              pathway |-> <<Step("Missing Q7.1 response", "")>>,
              rationale |-> "incomplete_plan_adherence_assessment"]
        ELSE IF D7_is_positive_response(q7_1)
        THEN [risk_level |-> D7_LOW_RISK,
              pathway |-> Append(pathway1, Step("Y/PY path -> LOW RISK OF BIAS", "")),
              rationale |-> "results_according_to_plan"]
        ELSE [risk_level |-> selection_assessment.risk_level,
              pathway |-> pathway1 \o
                  << Step("N/PN/NI path -> Assessing selective reporting", ""),
                     Step("Selection assessment: positive, no information, negative",
                          << selection_assessment.positive_count,
                             selection_assessment.ni_count,
                             selection_assessment.negative_count >>) >>,
              rationale |-> selection_assessment.rationale,
              positive_count |-> selection_assessment.positive_count,
              ni_count |-> selection_assessment.ni_count,
              negative_count |-> selection_assessment.negative_count,
              selection_responses |-> selection_assessment.selection_responses,
              missing_questions |-> selection_assessment.missing_questions]

(***************************************************************************)
(* ROBINS-E Domain 3: selection and timing (robins_e_domain3.py)           *)
(***************************************************************************)

\* class Response(Enum) of robins_e_domain3
D3_Response_of(v) == [type |-> "robins_e_domain3.Response", value |-> v]

D3_Response == {D3_Response_of(v) : v \in {"Y", "PY", "N", "PN", "NI", "SN", "WN"}}

\* class PathwayRisk(Enum)
PathwayRisk_of(v) == [type |-> "robins_e_domain3.PathwayRisk", value |-> v]

PathwayRisk_LOW_RISK == PathwayRisk_of("Low risk of bias")

PathwayRisk_SOME_CONCERNS == PathwayRisk_of("Some concerns")

PathwayRisk_HIGH_RISK == PathwayRisk_of("High risk of bias")

PathwayRisk == {PathwayRisk_LOW_RISK, PathwayRisk_SOME_CONCERNS, PathwayRisk_HIGH_RISK}

\* class RiskLevel(Enum) of robins_e_domain3
D3_RiskLevel_of(v) == [type |-> "robins_e_domain3.RiskLevel", value |-> v]

D3_LOW_RISK == D3_RiskLevel_of("Low risk of bias")

D3_SOME_CONCERNS == D3_RiskLevel_of("Some concerns")

D3_HIGH_RISK == D3_RiskLevel_of("High risk of bias")

D3_VERY_HIGH_RISK == D3_RiskLevel_of("Very high risk of bias")

\* the keys of self.questions
D3_questions ==
    { "q3_1_timing_coincide", "q3_2_effect_constant", "q3_3_selection_after_start",
      "q3_4_selection_by_exposure", "q3_5_selection_by_outcome",
      "q3_6_analysis_corrected", "q3_7_sensitivity_analysis" }

D3_is_positive_response(response) == response \in {D3_Response_of("Y"), D3_Response_of("PY")}

D3_is_negative_response(response) == response \in {D3_Response_of("N"), D3_Response_of("PN")}

D3_is_positive_or_ni(response) ==
    response \in {D3_Response_of("Y"), D3_Response_of("PY"), D3_Response_of("NI")}

D3_is_negative_or_ni(response) ==
    response \in {D3_Response_of("N"), D3_Response_of("PN"), D3_Response_of("NI")}

\* _assess_pathway_a with the N/PN path of question 3.1 never reaching Low
D3_assess_pathway_a_late_start_penalized(responses) ==
    LET q3_1 == responses["q3_1_timing_coincide"]
        q3_2 == responses["q3_2_effect_constant"]
        pathway1 == <<Step("Q3.1 Starts of exposure and follow-up coincide? -> ", q3_1.value)>>
        pathway2 == Append(pathway1, Step("Q3.2 Effect constant over time? -> ", q3_2.value))
    IN  IF q3_1 = None
        THEN <<PathwayRisk_SOME_CONCERNS, <<Step("Missing Q3.1 response", "")>>>>
        ELSE IF q3_2 = None
        THEN <<PathwayRisk_SOME_CONCERNS, Append(pathway1, Step("Missing Q3.2 response", ""))>>
        ELSE IF D3_is_positive_response(q3_1)
        THEN IF D3_is_positive_response(q3_2) THEN <<PathwayRisk_LOW_RISK, pathway2>>
             ELSE IF D3_is_positive_or_ni(q3_2) THEN <<PathwayRisk_SOME_CONCERNS, pathway2>>
             ELSE IF D3_is_negative_response(q3_2) THEN <<PathwayRisk_HIGH_RISK, pathway2>>
             ELSE <<PathwayRisk_SOME_CONCERNS, pathway2>>
        ELSE IF D3_is_positive_or_ni(q3_2) THEN <<PathwayRisk_SOME_CONCERNS, pathway2>>
             ELSE IF D3_is_negative_response(q3_2) THEN <<PathwayRisk_HIGH_RISK, pathway2>>
             ELSE <<PathwayRisk_SOME_CONCERNS, pathway2>>

\* _assess_pathway_a (timing): <<PathwayRisk, pathway_log>>
D3_assess_pathway_a(responses) ==
    LET q3_1 == responses["q3_1_timing_coincide"]
        q3_2 == responses["q3_2_effect_constant"]
        pathway1 == <<Step("Q3.1 Starts of exposure and follow-up coincide? -> ", q3_1.value)>>
        pathway2 == Append(pathway1, Step("Q3.2 Effect constant over time? -> ", q3_2.value))
    IN  IF q3_1 = None
        THEN <<PathwayRisk_SOME_CONCERNS, <<Step("Missing Q3.1 response", "")>>>>
        ELSE IF q3_2 = None
        THEN <<PathwayRisk_SOME_CONCERNS, Append(pathway1, Step("Missing Q3.2 response", ""))>>
        ELSE IF D3_is_positive_response(q3_1)
        THEN IF D3_is_positive_response(q3_2) THEN <<PathwayRisk_LOW_RISK, pathway2>>
             ELSE IF D3_is_positive_or_ni(q3_2) THEN <<PathwayRisk_SOME_CONCERNS, pathway2>>
             ELSE IF D3_is_negative_response(q3_2) THEN <<PathwayRisk_HIGH_RISK, pathway2>>
             ELSE <<PathwayRisk_SOME_CONCERNS, pathway2>>
        ELSE IF D3_is_positive_response(q3_2) THEN <<PathwayRisk_LOW_RISK, pathway2>>
             ELSE IF D3_is_positive_or_ni(q3_2) THEN <<PathwayRisk_SOME_CONCERNS, pathway2>>
             ELSE IF D3_is_negative_response(q3_2) THEN <<PathwayRisk_HIGH_RISK, pathway2>>
             ELSE <<PathwayRisk_SOME_CONCERNS, pathway2>>

\* _assess_pathway_b (selection): <<PathwayRisk, pathway_log>>
D3_assess_pathway_b(responses) ==
    LET q3_3 == responses["q3_3_selection_after_start"]
        q3_4 == responses["q3_4_selection_by_exposure"]
        q3_5 == responses["q3_5_selection_by_outcome"]
        pathway3 == <<Step("Q3.3 Selection based on characteristics after start? -> ", q3_3.value)>>
        pathway4 == Append(pathway3, Step("Q3.4 Selection variables influenced by exposure? -> ", q3_4.value))
        pathway5 == Append(pathway4, Step("Q3.5 Selection variables influenced by outcome? -> ", q3_5.value))
    IN  IF q3_3 = None
        THEN <<PathwayRisk_SOME_CONCERNS, <<Step("Missing Q3.3 response", "")>>>>
        ELSE IF D3_is_positive_response(q3_3)
        THEN <<PathwayRisk_HIGH_RISK, pathway3>>
        ELSE IF q3_3 = D3_Response_of("NI")
        THEN <<PathwayRisk_SOME_CONCERNS, pathway3>>
        ELSE IF D3_is_negative_response(q3_3)
        THEN IF q3_4 = None
             THEN <<PathwayRisk_SOME_CONCERNS, Append(pathway3, Step("Missing Q3.4 response", ""))>>
             ELSE IF q3_4 = D3_Response_of("NI")
             THEN <<PathwayRisk_SOME_CONCERNS, pathway4>>
             ELSE IF D3_is_negative_response(q3_4)
             THEN IF q3_5 = None
                  THEN <<PathwayRisk_SOME_CONCERNS, Append(pathway4, Step("Missing Q3.5 response", ""))>>
                  ELSE IF D3_is_negative_response(q3_5) THEN <<PathwayRisk_LOW_RISK, pathway5>>
                  ELSE IF D3_is_positive_response(q3_5) THEN <<PathwayRisk_HIGH_RISK, pathway5>>
                  ELSE <<PathwayRisk_SOME_CONCERNS, pathway5>>
             ELSE IF D3_is_positive_response(q3_4)
             THEN IF q3_5 = None
                  THEN <<PathwayRisk_SOME_CONCERNS, Append(pathway4, Step("Missing Q3.5 response", ""))>>
                  ELSE IF D3_is_negative_or_ni(q3_5) THEN <<PathwayRisk_SOME_CONCERNS, pathway5>>
                  ELSE IF D3_is_positive_response(q3_5) THEN <<PathwayRisk_HIGH_RISK, pathway5>>
                  ELSE <<PathwayRisk_SOME_CONCERNS, pathway5>>
             ELSE <<PathwayRisk_SOME_CONCERNS, pathway4>>
        ELSE <<PathwayRisk_SOME_CONCERNS, pathway3>>

\* the outcome of question 3.7 with the graded negative answers exchanged
D3_sensitivity_rule_grades_swapped(q3_7) ==
    IF D3_is_positive_response(q3_7) THEN <<D3_SOME_CONCERNS, "sensitivity_analysis_positive">>
    ELSE IF q3_7 = D3_Response_of("WN") THEN <<D3_VERY_HIGH_RISK, "sensitivity_analysis_strong_no">>
    ELSE IF q3_7 = D3_Response_of("SN") THEN <<D3_HIGH_RISK, "sensitivity_analysis_weak_no">>
    ELSE <<D3_HIGH_RISK, "sensitivity_analysis_other">>

\* the outcome of an answered question 3.7: <<risk_level, combination_rule>>
D3_sensitivity_rule(q3_7) ==
    IF D3_is_positive_response(q3_7) THEN <<D3_SOME_CONCERNS, "sensitivity_analysis_positive">>
    ELSE IF q3_7 = D3_Response_of("WN") THEN <<D3_HIGH_RISK, "sensitivity_analysis_weak_no">>
    ELSE IF q3_7 = D3_Response_of("SN") THEN <<D3_VERY_HIGH_RISK, "sensitivity_analysis_strong_no">>
    ELSE <<D3_HIGH_RISK, "sensitivity_analysis_other">>

\* _combine_pathway_risks: the "Across A, B" rules
D3_combine_pathway_risks(pathway_a_risk, pathway_b_risk, responses, pathway) ==
    LET q3_6 == responses["q3_6_analysis_corrected"]
        q3_7 == responses["q3_7_sensitivity_analysis"]
        pathway_ab == pathway \o << Step("Pathway A risk: ", pathway_a_risk.value),
                                    Step("Pathway B risk: ", pathway_b_risk.value) >>
        pathway_high == Append(pathway_ab, Step("At least one HIGH risk - checking corrections", ""))
        pathway_3_6 == IF q3_6 # None
                       THEN Append(pathway_high, Step("Q3.6 Analysis corrected for selection biases? -> ", q3_6.value))
                       ELSE pathway_high
        pathway_3_7 == Append(pathway_3_6, Step("Q3.7 Sensitivity analyses demonstrate minimal impact? -> ", q3_7.value))
        result(risk_level, path, combination_rule) ==
            [risk_level |-> risk_level, pathway |-> path,
             pathway_a_risk |-> pathway_a_risk, pathway_b_risk |-> pathway_b_risk,
             combination_rule |-> combination_rule]
    IN  IF pathway_a_risk = PathwayRisk_LOW_RISK /\ pathway_b_risk = PathwayRisk_LOW_RISK
        THEN result(D3_LOW_RISK, pathway_ab, "both_low")
        ELSE IF /\ (pathway_a_risk = PathwayRisk_SOME_CONCERNS \/ pathway_b_risk = PathwayRisk_SOME_CONCERNS)
                /\ pathway_a_risk # PathwayRisk_HIGH_RISK
                /\ pathway_b_risk # PathwayRisk_HIGH_RISK
        THEN result(D3_SOME_CONCERNS, pathway_ab, "some_concerns_no_high")
        ELSE IF pathway_a_risk = PathwayRisk_HIGH_RISK \/ pathway_b_risk = PathwayRisk_HIGH_RISK
        THEN IF q3_6 # None /\ D3_is_positive_response(q3_6)
             THEN result(D3_SOME_CONCERNS,
                         Append(pathway_high, Step("Q3.6 Analysis corrected for selection biases? -> SOME CONCERNS", q3_6.value)),
                         "corrected_analysis")
             ELSE IF q3_7 = None
             THEN result(D3_HIGH_RISK,
                         Append(pathway_3_6, Step("Missing Q3.7 response -> HIGH RISK", "")),
                         "high_risk_default")
             ELSE result(D3_sensitivity_rule(q3_7)[1], pathway_3_7, D3_sensitivity_rule(q3_7)[2])
        ELSE result(D3_SOME_CONCERNS, Append(pathway_ab, Step("Default fallback", "")), "fallback")

\* [f"PATHWAY A: {log}" for log in pathway_log]
D3_prefixed(prefix, pathway_log) ==
    [i \in 1..Len(pathway_log) |-> <<prefix>> \o pathway_log[i]]

\* assess_selection_timing_bias
assess_selection_timing_bias(responses) ==
    LET a == D3_assess_pathway_a(responses)
        b == D3_assess_pathway_b(responses)
        pathway == D3_prefixed("PATHWAY A: ", a[2]) \o D3_prefixed("PATHWAY B: ", b[2])
    IN  D3_combine_pathway_risks(a[1], b[1], responses, pathway)

(***************************************************************************)
(* ROBINS-E Domain 1: confounding (robins_e_domain1.py)                    *)
(***************************************************************************)

\* an exception that leaves the called function
Raise(exception, message) == [exception |-> exception, message |-> message]

\* evaluating x.value where x is None
AttributeError_value == Raise("AttributeError", Step("'NoneType' object has no attribute 'value'", ""))

\* TRUE iff the call ended in an exception
Raised(result) == "exception" \in DOMAIN result

\* class Response(Enum) of robins_e_domain1
D1_Response_of(v) == [type |-> "robins_e_domain1.Response", value |-> v]

D1_Response == {D1_Response_of(v) : v \in {"Y", "PY", "N", "PN", "NI", "SN", "WN", "VPY"}}

\* class RiskLevel(Enum) of robins_e_domain1
D1_RiskLevel_of(v) == [type |-> "robins_e_domain1.RiskLevel", value |-> v]

D1_LOW_RISK == D1_RiskLevel_of("Low risk of bias (except for concerns about uncontrolled confounding)")

D1_SOME_CONCERNS == D1_RiskLevel_of("Some concerns")

D1_HIGH_RISK == D1_RiskLevel_of("High risk of bias")

D1_VERY_HIGH_RISK == D1_RiskLevel_of("Very high risk of bias")

D1_RiskLevel == {D1_LOW_RISK, D1_SOME_CONCERNS, D1_HIGH_RISK, D1_VERY_HIGH_RISK}

\* the questions variant_a_algorithm reads
D1_questions_a ==
    {"q1_1_controlled_important", "q1_3_post_exposure", "q1_4_negative_controls", "q1_2_factors_measured"}

\* the questions variant_b_algorithm reads
D1_questions_b ==
    {"q1_1_appropriate_method", "q1_2_controlled_important", "q1_4_post_exposure_vars",
     "q1_5_negative_controls", "q1_3_factors_measured"}

\* the keys of self.questions
D1_questions == D1_questions_a \cup D1_questions_b

D1_is_positive_response(response) == response \in {D1_Response_of("Y"), D1_Response_of("PY")}

D1_is_negative_response(response) == response \in {D1_Response_of("N"), D1_Response_of("PN")}

D1_is_strong_negative(response) == response \in {D1_Response_of("SN"), D1_Response_of("NI")}

D1_is_weak_negative(response) == response = D1_Response_of("WN")

\* the returned dictionary of a variant algorithm
D1_result(risk_level, pathway, variant) ==
    [risk_level |-> risk_level, pathway |-> pathway, variant |-> variant]

\* the shared tail of variant B: Q1.5, reached after pathway
D1_variant_b_q1_5(responses, pathway) ==
    LET q1_5 == responses["q1_5_negative_controls"]
        pathway_5 == Append(pathway,
            Step("Q1.5 Negative controls suggest serious uncontrolled confounding? -> ", q1_5.value))
    IN  IF q1_5 = None THEN AttributeError_value
        ELSE IF D1_is_positive_response(q1_5)
        THEN D1_result(D1_SOME_CONCERNS, pathway_5, "B")
        ELSE D1_result(D1_LOW_RISK, pathway_5, "B")

\* variant_b_algorithm
D1_variant_b_algorithm(responses) ==
    LET q1_1 == responses["q1_1_appropriate_method"]
        q1_2 == responses["q1_2_controlled_important"]
        q1_4_vars == responses["q1_4_post_exposure_vars"]
        q1_3 == responses["q1_3_factors_measured"]
        pathway_1 == <<Step("Q1.1 Appropriate analysis method? -> ", q1_1.value)>>
        pathway_2 == Append(pathway_1,
            Step("Q1.2 Controlled for all important confounding factors? -> ", q1_2.value))
        pathway_4 == Append(pathway_2,
            Step("Q1.4 Controlled for variables measured after start of exposure? -> ", q1_4_vars.value))
        pathway_3 == Append(pathway_2,
            Step("Q1.3 Confounding factors measured validly and reliably? -> ", q1_3.value))
    IN  IF q1_1 = None THEN AttributeError_value
        ELSE IF q1_1 \in {D1_Response_of("N"), D1_Response_of("PN"), D1_Response_of("NI")}
        THEN D1_result(D1_HIGH_RISK, Append(pathway_1, Step("Direct path to HIGH RISK", "")), "B")
        ELSE IF ~D1_is_positive_response(q1_1)
        THEN D1_result(D1_HIGH_RISK, Append(pathway_1, Step("Fallback to HIGH RISK", "")), "B")
        ELSE IF q1_2 = None THEN AttributeError_value
        ELSE IF D1_is_strong_negative(q1_2)
        THEN D1_result(D1_HIGH_RISK, Append(pathway_2, Step("SN/NI path to HIGH RISK", "")), "B")
        ELSE IF D1_is_weak_negative(q1_2)
        THEN IF q1_4_vars = None THEN AttributeError_value
             ELSE IF D1_is_positive_response(q1_4_vars)
             THEN D1_result(D1_VERY_HIGH_RISK,
                            Append(pathway_4, Step("Y/PY path to VERY HIGH RISK", "")), "B")
             ELSE D1_variant_b_q1_5(responses, pathway_4)
        ELSE IF D1_is_positive_response(q1_2)
        THEN IF q1_3 = None THEN AttributeError_value
             ELSE IF D1_is_strong_negative(q1_3)
             THEN D1_result(D1_HIGH_RISK, Append(pathway_3, Step("SN/NI path to HIGH RISK", "")), "B")
             ELSE D1_variant_b_q1_5(responses, pathway_3)
        ELSE D1_result(D1_HIGH_RISK, Append(pathway_2, Step("Fallback to HIGH RISK", "")), "B")

\* the shared tail of variant A: Q1.4 negative controls, reached after pathway
D1_variant_a_q1_4(responses, pathway) ==
    LET q1_4_neg == responses["q1_4_negative_controls"]
        pathway_4 == Append(pathway,
            Step("Q1.4 Negative controls suggest serious uncontrolled confounding? -> ", q1_4_neg.value))
    IN  IF q1_4_neg = None THEN AttributeError_value
        ELSE IF D1_is_positive_response(q1_4_neg)
        THEN D1_result(D1_SOME_CONCERNS, pathway_4, "A")
        ELSE D1_result(D1_LOW_RISK, pathway_4, "A")

\* variant_a_algorithm
D1_variant_a_algorithm(responses) ==
    LET q1_1 == responses["q1_1_controlled_important"]
        q1_3_post == responses["q1_3_post_exposure"]
        q1_2 == responses["q1_2_factors_measured"]
        pathway_1 == <<Step("Q1.1 Controlled for all important confounding factors? -> ", q1_1.value)>>
        pathway_3 == Append(pathway_1,
            Step("Q1.3 Control for any post-exposure variables? -> ", q1_3_post.value))
        pathway_2 == Append(pathway_3,
            Step("Q1.2 Confounding factors measured validly and reliably? -> ", q1_2.value))
    IN  IF q1_1 = None THEN AttributeError_value
        ELSE IF D1_is_strong_negative(q1_1)
        THEN D1_result(D1_HIGH_RISK, Append(pathway_1, Step("SN/NI path to HIGH RISK", "")), "A")
        ELSE IF ~(D1_is_positive_response(q1_1) \/ D1_is_weak_negative(q1_1))
        THEN D1_result(D1_HIGH_RISK, Append(pathway_1, Step("Fallback to HIGH RISK", "")), "A")
        ELSE IF q1_3_post = None THEN AttributeError_value
        ELSE IF D1_is_positive_response(q1_3_post)
        THEN D1_variant_a_q1_4(responses, pathway_3)
        ELSE IF D1_is_negative_response(q1_3_post)
        THEN IF q1_2 = None THEN AttributeError_value
             ELSE IF D1_is_strong_negative(q1_2)
             THEN D1_result(D1_HIGH_RISK, Append(pathway_2, Step("SN/NI path to HIGH RISK", "")), "A")
             ELSE IF D1_is_positive_response(q1_2)
             THEN D1_result(D1_VERY_HIGH_RISK,
                            Append(pathway_2, Step("Y/PY path to VERY HIGH RISK", "")), "A")
             ELSE D1_variant_a_q1_4(responses, pathway_2)
        ELSE D1_result(D1_HIGH_RISK, Append(pathway_3, Step("Fallback to HIGH RISK", "")), "A")

\* the variant strings a caller may pass
D1_RawVariants == {"A", "a", "B", "b", "C", ""}

\* assess_bias_risk comparing the variant without upper-casing it
D1_assess_bias_risk_case_sensitive(responses, variant) ==
    IF variant = "A" THEN D1_variant_a_algorithm(responses)
    ELSE IF variant = "B" THEN D1_variant_b_algorithm(responses)
    ELSE Raise("ValueError", Step("Variant must be 'A' or 'B'", ""))

\* assess_bias_risk
D1_assess_bias_risk(responses, variant) ==
    IF Upper(variant) = "A" THEN D1_variant_a_algorithm(responses)
    ELSE IF Upper(variant) = "B" THEN D1_variant_b_algorithm(responses)
    ELSE Raise("ValueError", Step("Variant must be 'A' or 'B'", ""))

(***************************************************************************)
(* ROBINS-E Domain 4: post-exposure interventions (robins_e_domain4.py)    *)
(***************************************************************************)

\* class Response(Enum) of robins_e_domain4
D4_Response_of(v) == [type |-> "robins_e_domain4.Response", value |-> v]

D4_Response == {D4_Response_of(v) : v \in {"Y", "PY", "N", "PN", "NI"}}

\* class RiskLevel(Enum) of robins_e_domain4
D4_RiskLevel_of(v) == [type |-> "robins_e_domain4.RiskLevel", value |-> v]

D4_LOW_RISK == D4_RiskLevel_of("Low risk of bias")

D4_SOME_CONCERNS == D4_RiskLevel_of("Some concerns")

D4_HIGH_RISK == D4_RiskLevel_of("High risk of bias")

\* the keys of self.questions, in order
D4_question_seq == << "q4_1_post_exposure_interventions", "q4_2_analysis_corrected" >>

D4_questions == {D4_question_seq[i] : i \in DOMAIN D4_question_seq}

D4_is_positive_response(response) == response \in {D4_Response_of("Y"), D4_Response_of("PY")}

D4_is_negative_response(response) == response \in {D4_Response_of("N"), D4_Response_of("PN")}

D4_is_no_information(response) == response = D4_Response_of("NI")

D4_is_negative_or_ni(response) ==
    response \in {D4_Response_of("N"), D4_Response_of("PN"), D4_Response_of("NI")}

\* the returned dictionary
D4_result(risk_level, pathway, rationale) ==
    [risk_level |-> risk_level, pathway |-> pathway, rationale |-> rationale]

\* assess_post_exposure_interventions_bias
assess_post_exposure_interventions_bias(responses) ==
    LET q4_1 == responses["q4_1_post_exposure_interventions"]
        q4_2 == responses["q4_2_analysis_corrected"]
        pathway_1 == <<Step("Q4.1 Were there post-exposure interventions influenced by exposure? -> ",
                            q4_1.value)>>
        pathway_1b == Append(pathway_1,
            IF D4_is_positive_response(q4_1)
            THEN Step("Y/PY path -> Proceeding to Q4.2", "")
            ELSE Step("NI path -> Proceeding to Q4.2", ""))
        pathway_2 == Append(pathway_1b,
            Step("Q4.2 Likely that analysis corrected for effect of these? -> ", q4_2.value))
    IN  IF q4_1 = None
        THEN D4_result(D4_SOME_CONCERNS, <<Step("Missing Q4.1 response", "")>>, "incomplete_data")
        ELSE IF D4_is_negative_response(q4_1)
        THEN D4_result(D4_LOW_RISK, Append(pathway_1, Step("N/PN path -> LOW RISK OF BIAS", "")),
                       "no_post_exposure_interventions")
        ELSE IF ~(D4_is_positive_response(q4_1) \/ D4_is_no_information(q4_1))
        THEN D4_result(D4_SOME_CONCERNS,
                       Append(pathway_1, Step("Unexpected pathway - defaulting to SOME CONCERNS", "")),
                       "unexpected_case")
        ELSE IF q4_2 = None
        THEN D4_result(D4_HIGH_RISK,
                       Append(pathway_1b, Step("Missing Q4.2 response -> HIGH RISK", "")),
                       "incomplete_correction_assessment")
        ELSE IF D4_is_positive_response(q4_2)
        THEN D4_result(D4_SOME_CONCERNS, Append(pathway_2, Step("Y/PY path -> SOME CONCERNS", "")),
                       "interventions_present_but_corrected")
        ELSE IF D4_is_negative_or_ni(q4_2)
        THEN D4_result(D4_HIGH_RISK, Append(pathway_2, Step("N/PN/NI path -> HIGH RISK OF BIAS", "")),
                       "interventions_present_not_corrected")
        ELSE D4_result(D4_SOME_CONCERNS,
                       Append(pathway_2, Step("Unexpected pathway - defaulting to SOME CONCERNS", "")),
                       "unexpected_case")

(***************************************************************************)
(* ROBINS-E engine (robins_e_engine.py)                                    *)
(***************************************************************************)

\* response_mapping of _convert_response; Response is robins_e_domain1.Response
response_mapping ==
    [s \in {"yes", "probably_yes", "no", "probably_no", "no_information", "not_applicable"} |->
        CASE s = "yes" -> D1_Response_of("Y")
          [] s = "probably_yes" -> D1_Response_of("PY")
          [] s = "no" -> D1_Response_of("N")
          [] s = "probably_no" -> D1_Response_of("PN")
          [] s = "no_information" -> D1_Response_of("NI")
          [] s = "not_applicable" -> D1_Response_of("NI")]

\* _convert_response
_convert_response(response) ==
    IF Lower(response) \in DOMAIN response_mapping
    THEN response_mapping[Lower(response)]
    ELSE IF D1_Response_of(Upper(response)) \in D1_Response
    THEN D1_Response_of(Upper(response))
    ELSE Raise("ValueError", Step("Invalid response: ", response))

\* _convert_responses_dict: the keys that are in the dictionary are converted,
\* and the first value that does not convert raises
_convert_responses_dict(responses) ==
    LET keys == {q \in DOMAIN responses : responses[q] # KeyAbsent}
        failing == {q \in keys : Raised(_convert_response(responses[q]))}
    IN  IF failing # {}
        THEN _convert_response(responses[CHOOSE q \in failing : TRUE])
        ELSE [q \in DOMAIN responses |->
                IF q \in keys THEN _convert_response(responses[q]) ELSE None]

\* the lookup of an attribute the object does not have
AttributeError_assess_bias_risk(class) ==
    Raise("AttributeError", Step("object has no attribute 'assess_bias_risk'", class))

\* the dictionary an engine method returns from its except branch
engine_error(domain, e, responses) ==
    [domain |-> domain, risk_level |-> "High risk of bias", error |-> e.message,
     responses |-> responses]

\* assess_domain_1_confounding
assess_domain_1_confounding(responses, variant) ==
    LET converted_responses == _convert_responses_dict(responses)
        result == D1_assess_bias_risk(converted_responses, variant)
    IN  IF Raised(converted_responses)
        THEN engine_error("Domain 1: Confounding", converted_responses, responses)
        ELSE IF Raised(result)
        THEN engine_error("Domain 1: Confounding", result, responses)
        ELSE [domain |-> "Domain 1: Confounding",
              risk_level |-> result.risk_level.value,
              pathway |-> result.pathway,
              variant_used |-> result.variant,
              responses |-> responses]

\* the body shared by the engine methods of domains 2 to 7: the answers are
\* converted and self.domainN.assess_bias_risk is looked up; none of the
\* classes ROBINSEDomain2 .. ROBINSEDomain7 defines assess_bias_risk
engine_assess_domain(domain, class, responses) ==
    LET converted_responses == _convert_responses_dict(responses)
    IN  IF Raised(converted_responses)
        THEN engine_error(domain, converted_responses, responses)
        ELSE engine_error(domain, AttributeError_assess_bias_risk(class), responses)

assess_domain_2_exposure_measurement(responses) ==
    engine_assess_domain("Domain 2: Measurement of Exposures", "ROBINSEDomain2", responses)

assess_domain_3_selection(responses) ==
    engine_assess_domain("Domain 3: Selection of Participants", "ROBINSEDomain3", responses)

assess_domain_4_post_exposure_interventions(responses) ==
    engine_assess_domain("Domain 4: Post-exposure Interventions", "ROBINSEDomain4", responses)

assess_domain_5_missing_data(responses) ==
    engine_assess_domain("Domain 5: Missing Data", "ROBINSEDomain5", responses)

assess_domain_6_outcome_measurement(responses) ==
    engine_assess_domain("Domain 6: Measurement of Outcomes", "ROBINSEDomain6", responses)

assess_domain_7_reported_result(responses) ==
    engine_assess_domain("Domain 7: Selection of Reported Result", "ROBINSEDomain7", responses)

\* the keys of self.questions of ROBINSEDomain2, ROBINSEDomain5, ROBINSEDomain6
D2_questions ==
    {"q2_1_exposure_characterise", "q2_2_error_single_timepoint",
     "q2_3_measurement_differential", "q2_4_non_differential_error"}

D5_questions ==
    {"q5_1_to_5_3_complete_data", "q5_4_complete_case_analysis", "q5_5_exclusion_related_outcome",
     "q5_6_predictors_missingness", "q5_7_analysis_imputing", "q5_8_appropriate_imputation",
     "q5_9_appropriate_method", "q5_10_evidence_not_biased"}

D6_questions ==
    {"q6_1_measurement_differs", "q6_2_assessors_aware", "q6_3_assessment_influenced"}

\* self.domain_names of ROBINSEEngine
engine_domain_names ==
    [k \in DomainKeys |->
        CASE k = "domain_1" -> "Risk of bias due to confounding"
          [] k = "domain_2" -> "Risk of bias in measurement of exposures"
          [] k = "domain_3" -> "Risk of bias in selection of participants into the study"
          [] k = "domain_4" -> "Risk of bias due to post-exposure interventions"
          [] k = "domain_5" -> "Risk of bias due to missing data"
          [] k = "domain_6" -> "Risk of bias in measurement of outcomes"
          [] k = "domain_7" -> "Risk of bias in selection of the reported result"]

\* ROBINSEEngine.assess_overall_bias: result['risk_counts'] raises KeyError
\* when the assessor returned early, and the except branch answers
assess_overall_bias(domain_assessments) ==
    LET result == assess_overall_bias_risk(domain_assessments)
    IN  IF "risk_counts" \notin DOMAIN result
        THEN [overall_risk |-> "High risk of bias",
              error |-> Step("'risk_counts'", ""),
              domain_assessments |-> domain_assessments]
        ELSE [overall_risk |-> result.overall_risk.value,
              rationale |-> result.rationale,
              domain_assessments |-> result.domain_assessments,
              risk_counts |-> result.risk_counts,
              contributing_domains |-> result.contributing_domains]

\* the engine method complete_assessment calls for a domain key
engine_domain_method(domain_key, responses, domain_1_variant) ==
    CASE domain_key = "domain_1" -> assess_domain_1_confounding(responses, domain_1_variant)
      [] domain_key = "domain_2" -> assess_domain_2_exposure_measurement(responses)
      [] domain_key = "domain_3" -> assess_domain_3_selection(responses)
      [] domain_key = "domain_4" -> assess_domain_4_post_exposure_interventions(responses)
      [] domain_key = "domain_5" -> assess_domain_5_missing_data(responses)
      [] domain_key = "domain_6" -> assess_domain_6_outcome_measurement(responses)
      [] domain_key = "domain_7" -> assess_domain_7_reported_result(responses)

\* ROBINSEEngine.complete_assessment; all_responses maps an absent domain key
\* to None
complete_assessment(all_responses, domain_1_variant) ==
    LET present == {k \in DomainKeys : all_responses[k] # None}
        domain_result(k) == engine_domain_method(k, all_responses[k], domain_1_variant)
        domain_risk_levels ==
            [k \in DomainKeys |-> IF k \in present THEN Str(domain_result(k).risk_level) ELSE None]
    IN  [k \in DomainKeys \cup {"overall"} |->
            IF k = "overall"
            THEN IF present # {} THEN assess_overall_bias(domain_risk_levels) ELSE None
            ELSE IF k \in present THEN domain_result(k)
            ELSE [domain |-> engine_domain_names[k],
                  error |-> "No responses provided for this domain"]]

\* the text labels of the domain risk levels the engine passes on
EngineRiskLabels ==
    {Str("Low risk of bias"), Str("Some concerns"), Str("High risk of bias"),
     Str("Very high risk of bias")}

\* answer sets of domain 1 submitted to complete_assessment: variant B ending
\* in Low, in Some concerns and in Very high, and an incomplete set
engine_domain_1_answer_sets ==
    LET answers(q1_1, q1_2, q1_3, q1_4, q1_5) ==
            [q \in D1_questions |->
                CASE q = "q1_1_appropriate_method" -> q1_1
                  [] q = "q1_2_controlled_important" -> q1_2
                  [] q = "q1_3_factors_measured" -> q1_3
                  [] q = "q1_4_post_exposure_vars" -> q1_4
                  [] q = "q1_5_negative_controls" -> q1_5
                  [] OTHER -> KeyAbsent]
    IN  { answers("yes", "yes", "yes", KeyAbsent, "pn"),
          answers("yes", "yes", "yes", KeyAbsent, "yes"),
          answers("yes", "WN", KeyAbsent, "yes", KeyAbsent),
          answers("yes", KeyAbsent, KeyAbsent, KeyAbsent, KeyAbsent) }

\* answer sets of a domain with the questions Q submitted to
\* complete_assessment: every question answered alike
engine_uniform_answer_sets(Q) == {[q \in Q |-> raw] : raw \in {"yes", "pn"}}

\* the questions of the domain classes by domain key
engine_questions ==
    [k \in DomainKeys |->
        CASE k = "domain_1" -> D1_questions
          [] k = "domain_2" -> D2_questions
          [] k = "domain_3" -> D3_questions
          [] k = "domain_4" -> D4_questions
          [] k = "domain_5" -> D5_questions
          [] k = "domain_6" -> D6_questions
          [] k = "domain_7" -> D7_questions]

(***************************************************************************)
(* The two routes into the trial engine (llm_service.py, views.py)         *)
(***************************************************************************)

\* the canonical trial tokens written as the form choices of
\* QuestionResponse.RESPONSE_CHOICES
choice_of_token(token) ==
    CASE token = "Y" -> "yes"
      [] token = "PY" -> "probably_yes"
      [] token = "PN" -> "probably_no"
      [] token = "N" -> "no"
      [] token = "NI" -> "no_information"
      [] token = "NA" -> "not_applicable"
      [] OTHER -> token

\* the spellings a raw answer set comes in: the token itself, the form
\* choice, the form choice in upper case
RawSpellings == {"token", "choice", "CHOICE"}

spelled(token, spelling) ==
    CASE spelling = "token" -> token
      [] spelling = "choice" -> choice_of_token(token)
      [] spelling = "CHOICE" -> Upper(choice_of_token(token))

\* _validate_assessment_logic: q_data['response'].upper() mapped to the
\* engine format; any other string is passed on in upper case
llm_response(raw) ==
    LET response == Upper(raw)
    IN  CASE response = "PROBABLY_YES" -> "PY"
          [] response = "PROBABLY_NO" -> "PN"
          [] response = "NO_INFORMATION" -> "NI"
          [] response = "NOT_APPLICABLE" -> "NA"
          [] response = "YES" -> "Y"
          [] response = "NO" -> "N"
          [] OTHER -> response

\* the responses dictionary _validate_assessment_logic builds
llm_responses(questions) ==
    [q \in Rob2Questions |->
        IF questions[q] = KeyAbsent THEN KeyAbsent ELSE llm_response(questions[q])]

\* len(responses)
responses_len(responses) == Cardinality({q \in Rob2Questions : responses[q] # KeyAbsent})

\* engine_results of _validate_assessment_logic: None when the engine is not
\* run, the ValueError when an evaluator raises
llm_engine_results(questions) ==
    IF responses_len(llm_responses(questions)) >= 22
    THEN calculate_rob2_assessment(llm_responses(questions))
    ELSE None

\* the comparison of the engine's results with the risk the assistant
\* proposes: a warning per mismatching domain, an error for the overall risk
validation_results(engine_results, llm_risk) ==
    LET engine_risk(k) == Lower(engine_results.results[k].risk)
        mismatch(k) == engine_results.results[k] # None /\ llm_risk # engine_risk(k)
        domain_keys_5 == <<"domain_1", "domain_2", "domain_3", "domain_4", "domain_5">>
        mismatching == SelectSeq(domain_keys_5, mismatch)
    IN  IF engine_results = None
        THEN [warnings |-> <<>>, errors |-> <<>>, suggestions |-> <<>>]
        ELSE IF engine_results.status = "ValueError"
        THEN [warnings |-> <<>>,
              errors |-> <<Step("Validation error: ", engine_results.message)>>,
              suggestions |-> <<>>]
        ELSE [warnings |-> [i \in 1..Len(mismatching) |->
                               Step("Domain risk mismatch: LLM, Engine",
                                    <<mismatching[i], llm_risk, engine_risk(mismatching[i])>>)],
              errors |-> IF mismatch("overall")
                         THEN <<Step("Overall risk mismatch: LLM, Engine",
                                     <<llm_risk, engine_risk("overall")>>)>>
                         ELSE <<>>,
              suggestions |-> <<>>]

\* _validate_assessment_logic on the proposed answers and the risk the
\* assistant proposes for every domain and overall
_validate_assessment_logic(parsed_results) ==
    validation_results(llm_engine_results(parsed_results.questions),
                       Lower(parsed_results.risk_assessment))

\* calculate_automatic_rob2_assessment: response_mapping from the stored
\* form choice to the token; a response that is no key of it is left out
view_response_mapping(raw) ==
    CASE raw = "yes" -> "Y"
      [] raw = "probably_yes" -> "PY"
      [] raw = "probably_no" -> "PN"
      [] raw = "no" -> "N"
      [] raw = "no_information" -> "NI"
      [] raw = "not_applicable" -> "NA"
      [] OTHER -> KeyAbsent

\* the responses dictionary calculate_automatic_rob2_assessment builds
view_responses(question_responses) ==
    [q \in Rob2Questions |->
        IF question_responses[q] = KeyAbsent THEN KeyAbsent
        ELSE view_response_mapping(question_responses[q])]

\* overall_risk_mapping.get(risk, risk)
overall_risk_mapping(risk) ==
    CASE risk = "Low" -> "Low risk"
      [] risk = "High" -> "High risk"
      [] OTHER -> risk

\* what calculate_automatic_rob2_assessment returns and saves for the
\* results of the engine
saved_assessment(results) ==
    IF results.status = "ValueError" THEN [returned |-> results, overall_bias |-> None]
    ELSE [returned |-> results,
          overall_bias |-> IF results.results["overall"] # None
                           THEN Str(overall_risk_mapping(results.results["overall"].risk))
                           ELSE None]

\* calculate_automatic_rob2_assessment: the returned results (None when the
\* engine is not run, the ValueError when an evaluator raises) and the
\* overall_bias saved on the assessment
calculate_automatic_rob2_assessment(question_responses) ==
    IF responses_len(view_responses(question_responses)) < 22
    THEN [returned |-> None, overall_bias |-> None]
    ELSE saved_assessment(calculate_rob2_assessment(view_responses(question_responses)))

(***************************************************************************)
(* The forms a domain verdict is supplied in to the overall assessor       *)
(***************************************************************************)

\* the member names of class DomainRisk
RiskLevelNames == {"LOW_RISK", "SOME_CONCERNS", "HIGH_RISK", "VERY_HIGH_RISK"}

\* DomainRisk[name]
DomainRisk_member(name) ==
    CASE name = "LOW_RISK" -> DomainRisk_LOW_RISK
      [] name = "SOME_CONCERNS" -> DomainRisk_SOME_CONCERNS
      [] name = "HIGH_RISK" -> DomainRisk_HIGH_RISK
      [] name = "VERY_HIGH_RISK" -> DomainRisk_VERY_HIGH_RISK

\* the member names of class RiskLevel of a domain's module: domains 4 and 6
\* have no VERY_HIGH_RISK
domain_RiskLevel_names(domain_key) ==
    IF domain_key \in {"domain_4", "domain_6"}
    THEN {"LOW_RISK", "SOME_CONCERNS", "HIGH_RISK"}
    ELSE RiskLevelNames

\* RiskLevel[name] of a domain's module
domain_RiskLevel_member(domain_key, name) ==
    LET class == CASE domain_key = "domain_1" -> "robins_e_domain1.RiskLevel"
                   [] domain_key = "domain_2" -> "robins_e_domain2.RiskLevel"
                   [] domain_key = "domain_3" -> "robins_e_domain3.RiskLevel"
                   [] domain_key = "domain_4" -> "robins_e_domain4.RiskLevel"
                   [] domain_key = "domain_5" -> "robins_e_domain5.RiskLevel"
                   [] domain_key = "domain_6" -> "robins_e_domain6.RiskLevel"
                   [] domain_key = "domain_7" -> "robins_e_domain7.RiskLevel"
    IN  [type |-> class,
         value |-> IF domain_key = "domain_1" /\ name = "LOW_RISK"
                   THEN "Low risk of bias (except for concerns about uncontrolled confounding)"
                   ELSE DomainRisk_member(name).value]

\* the forms of a supplied verdict: the DomainRisk member, the member of the
\* domain's own RiskLevel, the text of either
SuppliedForms == {"DomainRisk", "RiskLevel", "DomainRisk.value", "RiskLevel.value"}

supplied_verdict(domain_key, name, form) ==
    CASE form = "DomainRisk" -> DomainRisk_member(name)
      [] form = "RiskLevel" -> domain_RiskLevel_member(domain_key, name)
      [] form = "DomainRisk.value" -> Str(DomainRisk_member(name).value)
      [] form = "RiskLevel.value" -> Str(domain_RiskLevel_member(domain_key, name).value)

(***************************************************************************)
(* The caller                                                              *)
(***************************************************************************)

Init ==
    /\ op = "idle"
    /\ input = <<>>
    /\ output = <<>>

\* the caller drops the returned value; the engine keeps nothing
Return ==
    /\ op # "idle"
    /\ op' = "idle"
    /\ input' = <<>>
    /\ output' = <<>>

Call_assess_domain_1_randomization ==
    /\ op = "idle"
    /\ \E a \in [1..3 -> RawAnswers] :
        /\ op' = "assess_domain_1_randomization"
        /\ input' = a
        /\ output' = assess_domain_1_randomization(a[1], a[2], a[3])

\* Domain 2 is called on every combination of its six declared tokens and on
\* every combination of the raw strings of D2RawAnswers
Call_assess_domain_2_deviations ==
    /\ op = "idle"
    /\ \E a \in [1..7 -> valid_responses_6] \cup [1..7 -> D2RawAnswers] :
        /\ op' = "assess_domain_2_deviations"
        /\ input' = a
        /\ output' = assess_domain_2_deviations(a)

Call_assess_domain_3_missing_data ==
    /\ op = "idle"
    /\ \E a \in [1..4 -> RawAnswers] :
        /\ op' = "assess_domain_3_missing_data"
        /\ input' = a
        /\ output' = assess_domain_3_missing_data(a[1], a[2], a[3], a[4])

Call_assess_domain_4_outcome_measurement ==
    /\ op = "idle"
    /\ \E a \in [1..5 -> RawAnswers] :
        /\ op' = "assess_domain_4_outcome_measurement"
        /\ input' = a
        /\ output' = assess_domain_4_outcome_measurement(a[1], a[2], a[3], a[4], a[5])

Call_assess_domain_5_selective_reporting ==
    /\ op = "idle"
    /\ \E a \in [1..3 -> RawAnswers] :
        /\ op' = "assess_domain_5_selective_reporting"
        /\ input' = a
        /\ output' = assess_domain_5_selective_reporting(a[1], a[2], a[3])

Call_assess_overall_rob2 ==
    /\ op = "idle"
    /\ \E d \in [1..5 -> RawRisks] :
        /\ op' = "assess_overall_rob2"
        /\ input' = d
        /\ output' = assess_overall_rob2(d)

Call_assess_overall_bias_risk ==
    /\ op = "idle"
    /\ \E da \in [DomainKeys -> DomainRisk \cup {None}] :
        /\ op' = "assess_overall_bias_risk"
        /\ input' = da
        /\ output' = assess_overall_bias_risk(da)

Call_assess_conclusion_threat ==
    /\ op = "idle"
    /\ \E dt \in [DomainKeys -> ConclusionThreat \cup {None}] :
        /\ op' = "assess_conclusion_threat"
        /\ input' = dt
        /\ output' = assess_conclusion_threat(dt)

Call_assess_reported_results_bias ==
    /\ op = "idle"
    /\ \E r \in [D7_questions -> D7_Response \cup {None}] :
        /\ op' = "assess_reported_results_bias"
        /\ input' = r
        /\ output' = assess_reported_results_bias(r)

Call_assess_selection_timing_bias ==
    /\ op = "idle"
    /\ \E r \in [D3_questions -> D3_Response \cup {None}] :
        /\ op' = "assess_selection_timing_bias"
        /\ input' = r
        /\ output' = assess_selection_timing_bias(r)

\* the trial evaluators of domains 1, 3, 4, 5 and the trial overall combinator
NextTrial ==
    \/ Call_assess_domain_1_randomization
    \/ Call_assess_domain_3_missing_data
    \/ Call_assess_domain_4_outcome_measurement
    \/ Call_assess_domain_5_selective_reporting
    \/ Call_assess_overall_rob2
    \/ Return

SpecTrial == Init /\ [][NextTrial]_vars

\* the trial evaluator of domain 2
NextD2 ==
    \/ Call_assess_domain_2_deviations
    \/ Return

SpecD2 == Init /\ [][NextD2]_vars

\* the five trial domain evaluators
NextTrialDomains ==
    \/ Call_assess_domain_1_randomization
    \/ Call_assess_domain_2_deviations
    \/ Call_assess_domain_3_missing_data
    \/ Call_assess_domain_4_outcome_measurement
    \/ Call_assess_domain_5_selective_reporting
    \/ Return

SpecTrialDomains == Init /\ [][NextTrialDomains]_vars

\* the exposure-instrument overall combinator and conclusion-threat assessor
NextOverallE ==
    \/ Call_assess_overall_bias_risk
    \/ Call_assess_conclusion_threat
    \/ Return

SpecOverallE == Init /\ [][NextOverallE]_vars

\* the exposure-instrument evaluator of domain 7
NextD7E ==
    \/ Call_assess_reported_results_bias
    \/ Return

SpecD7E == Init /\ [][NextD7E]_vars

\* the exposure-instrument evaluator of domain 3
NextD3E ==
    \/ Call_assess_selection_timing_bias
    \/ Return

SpecD3E == Init /\ [][NextD3E]_vars

\* Domain 1 of the exposure instrument is called with a variant string and
\* with answers (or no answer) to the questions of one of the two trees
Call_D1_assess_bias_risk ==
    /\ op = "idle"
    /\ \E variant \in D1_RawVariants, tree \in {D1_questions_a, D1_questions_b} :
        \E r \in [tree -> D1_Response \cup {None}] :
            LET responses == [q \in D1_questions |-> IF q \in tree THEN r[q] ELSE None]
            IN  /\ op' = "D1_assess_bias_risk"
                /\ input' = <<responses, variant>>
                /\ output' = D1_assess_bias_risk(responses, variant)

\* the exposure-instrument evaluator of domain 1
NextD1E ==
    \/ Call_D1_assess_bias_risk
    \/ Return

SpecD1E == Init /\ [][NextD1E]_vars

\* calculate_rob2_assessment is called with every combination of answers,
\* unknown strings and absent keys for domain 1 and with one of the answer
\* sets of each other domain
Call_calculate_rob2_assessment ==
    /\ op = "idle"
    /\ \E a1 \in [1..3 -> valid_responses_5 \cup {"X", KeyAbsent}],
          a2 \in rob2_answer_sets[2], a3 \in rob2_answer_sets[3],
          a4 \in rob2_answer_sets[4], a5 \in rob2_answer_sets[5] :
        LET a == <<a1, a2, a3, a4, a5>>
            assessment_responses ==
                [q \in Rob2Questions |->
                    LET i == CHOOSE i \in 1..5 : \E k \in DOMAIN rob2_question_keys[i] :
                                                    rob2_question_keys[i][k] = q
                        k == CHOOSE k \in DOMAIN rob2_question_keys[i] : rob2_question_keys[i][k] = q
                    IN  a[i][k]]
        IN  /\ op' = "calculate_rob2_assessment"
            /\ input' = assessment_responses
            /\ output' = calculate_rob2_assessment(assessment_responses)

\* the complete trial assessment
NextCalc ==
    \/ Call_calculate_rob2_assessment
    \/ Return

SpecCalc == Init /\ [][NextCalc]_vars

\* the raw answers the engine is called with for the domains of seven and
\* eight questions
EngineRawAnswersShort == {"yes", "pn", "maybe"}

Call_assess_domain_1_confounding ==
    /\ op = "idle"
    /\ \E variant \in {"A", "b", "C"}, tree \in {D1_questions_a, D1_questions_b} :
        \E r \in [tree -> EngineRawAnswers \cup {KeyAbsent}] :
            LET responses == [q \in D1_questions |-> IF q \in tree THEN r[q] ELSE KeyAbsent]
            IN  /\ op' = "assess_domain_1_confounding"
                /\ input' = <<responses, variant>>
                /\ output' = assess_domain_1_confounding(responses, variant)

Call_assess_domain_2_exposure_measurement ==
    /\ op = "idle"
    /\ \E responses \in [D2_questions -> EngineRawAnswers \cup {KeyAbsent}] :
        /\ op' = "assess_domain_2_exposure_measurement"
        /\ input' = responses
        /\ output' = assess_domain_2_exposure_measurement(responses)

Call_assess_domain_3_selection ==
    /\ op = "idle"
    /\ \E responses \in [D3_questions -> EngineRawAnswersShort \cup {KeyAbsent}] :
        /\ op' = "assess_domain_3_selection"
        /\ input' = responses
        /\ output' = assess_domain_3_selection(responses)

Call_assess_domain_4_post_exposure_interventions ==
    /\ op = "idle"
    /\ \E responses \in [D4_questions -> EngineRawAnswers \cup {KeyAbsent}] :
        /\ op' = "assess_domain_4_post_exposure_interventions"
        /\ input' = responses
        /\ output' = assess_domain_4_post_exposure_interventions(responses)

Call_assess_domain_5_missing_data ==
    /\ op = "idle"
    /\ \E responses \in [D5_questions -> EngineRawAnswersShort \cup {KeyAbsent}] :
        /\ op' = "assess_domain_5_missing_data"
        /\ input' = responses
        /\ output' = assess_domain_5_missing_data(responses)

Call_assess_domain_6_outcome_measurement ==
    /\ op = "idle"
    /\ \E responses \in [D6_questions -> EngineRawAnswers \cup {KeyAbsent}] :
        /\ op' = "assess_domain_6_outcome_measurement"
        /\ input' = responses
        /\ output' = assess_domain_6_outcome_measurement(responses)

Call_assess_domain_7_reported_result ==
    /\ op = "idle"
    /\ \E responses \in [D7_questions -> EngineRawAnswers \cup {KeyAbsent}] :
        /\ op' = "assess_domain_7_reported_result"
        /\ input' = responses
        /\ output' = assess_domain_7_reported_result(responses)

Call__convert_response ==
    /\ op = "idle"
    /\ \E response \in EngineRawAnswers :
        /\ op' = "_convert_response"
        /\ input' = response
        /\ output' = _convert_response(response)

\* the normalizer and the evaluate-one-domain operations of the
\* exposure-instrument engine
NextEngine ==
    \/ Call__convert_response
    \/ Call_assess_domain_1_confounding
    \/ Call_assess_domain_2_exposure_measurement
    \/ Call_assess_domain_3_selection
    \/ Call_assess_domain_4_post_exposure_interventions
    \/ Call_assess_domain_5_missing_data
    \/ Call_assess_domain_6_outcome_measurement
    \/ Call_assess_domain_7_reported_result
    \/ Return

SpecEngine == Init /\ [][NextEngine]_vars

Call_assess_post_exposure_interventions_bias ==
    /\ op = "idle"
    /\ \E r \in [D4_questions -> D4_Response \cup {None}] :
        /\ op' = "assess_post_exposure_interventions_bias"
        /\ input' = r
        /\ output' = assess_post_exposure_interventions_bias(r)

\* the exposure-instrument evaluators of domains 1, 4 and 7, called directly
NextDomainsE ==
    \/ Call_D1_assess_bias_risk
    \/ Call_assess_post_exposure_interventions_bias
    \/ Call_assess_reported_results_bias
    \/ Return

SpecDomainsE == Init /\ [][NextDomainsE]_vars

Call_assess_overall_bias ==
    /\ op = "idle"
    /\ \E da \in [DomainKeys -> EngineRiskLabels \cup {None}] :
        /\ op' = "assess_overall_bias"
        /\ input' = da
        /\ output' = assess_overall_bias(da)

\* what complete_assessment may be given for a domain key: nothing, or one of
\* the answer sets of that domain
engine_answer_options(k) ==
    {None} \cup (IF k = "domain_1" THEN engine_domain_1_answer_sets
                 ELSE engine_uniform_answer_sets(engine_questions[k]))

\* complete_assessment is called with any subset of the domains answered
Call_complete_assessment ==
    /\ op = "idle"
    /\ \E domain_1_variant \in {"A", "B"},
          a1 \in engine_answer_options("domain_1"), a2 \in engine_answer_options("domain_2"),
          a3 \in engine_answer_options("domain_3"), a4 \in engine_answer_options("domain_4"),
          a5 \in engine_answer_options("domain_5"), a6 \in engine_answer_options("domain_6"),
          a7 \in engine_answer_options("domain_7") :
        LET a == <<a1, a2, a3, a4, a5, a6, a7>>
            all_responses == [k \in DomainKeys |-> a[CHOOSE i \in 1..7 : domain_keys[i] = k]]
        IN  /\ op' = "complete_assessment"
            /\ input' = <<all_responses, domain_1_variant>>
            /\ output' = complete_assessment(all_responses, domain_1_variant)

\* the overall operations of the exposure instrument
NextOverallEngine ==
    \/ Call_assess_overall_bias_risk
    \/ Call_assess_overall_bias
    \/ Call_complete_assessment
    \/ Return

SpecOverallEngine == Init /\ [][NextOverallEngine]_vars

\* the overrides an assessor may pass: none, the empty string, the three
\* levels and a string that is no trial level
AssessorOverrides == {None} \cup {Str(s) : s \in {"", "Low", "Some concerns", "High", "Very high"}}

\* the justification texts an assessor may pass
OverrideJustifications == {"", "Allocation was centrally concealed"}

Call_parallel_assess_overall_rob2 ==
    /\ op = "idle"
    /\ \E d \in [1..5 -> RawRisks], assessor_override \in AssessorOverrides,
          override_justification \in OverrideJustifications :
        /\ op' = "parallel_assess_overall_rob2"
        /\ input' = [d |-> d, assessor_override |-> assessor_override,
                     override_justification |-> override_justification]
        /\ output' = parallel_assess_overall_rob2(d, assessor_override, override_justification)

\* the trial overall combinator with assessor override
NextOverride ==
    \/ Call_parallel_assess_overall_rob2
    \/ Return

SpecOverride == Init /\ [][NextOverride]_vars

\* the overall assessor is called with a level for each domain; domain 1,
\* domains 2-4 and domains 5-7 are each supplied in one of the forms
Call_assess_overall_bias_risk_forms ==
    /\ op = "idle"
    /\ \E names \in [DomainKeys -> RiskLevelNames], form_1 \in SuppliedForms,
          form_2_4 \in SuppliedForms, form_5_7 \in SuppliedForms :
          LET form(k) == IF k = "domain_1" THEN form_1
                         ELSE IF k \in {"domain_2", "domain_3", "domain_4"} THEN form_2_4
                         ELSE form_5_7
          IN  /\ \A k \in DomainKeys : names[k] \in domain_RiskLevel_names(k)
              /\ op' = "assess_overall_bias_risk"
              /\ input' = [k \in DomainKeys |-> supplied_verdict(k, names[k], form(k))]
              /\ output' = assess_overall_bias_risk(input')

\* the exposure-instrument overall combinator on verdicts in every form
NextFormsE ==
    \/ Call_assess_overall_bias_risk_forms
    \/ Return

SpecFormsE == Init /\ [][NextFormsE]_vars

(***************************************************************************)
(* A session of calls on one ROBINSEEngine instance                        *)
(***************************************************************************)

\* the calls a session makes on one instance, at most
MaxCalls == 3

\* ROBINSEEngine.__init__: the attributes of a new instance that are not
\* themselves evaluator objects
ROBINSEEngine_init == [domain_names |-> engine_domain_names]

\* the function a method name stands for, applied to its arguments: the
\* engine's own methods, the evaluators and the overall assessor reached
\* through its attributes, and the trial functions
engine_dispatch(method, args) ==
    CASE method = "assess_domain_1_confounding" -> assess_domain_1_confounding(args[1], args[2])
      [] method = "assess_domain_3_selection" -> assess_domain_3_selection(args)
      [] method = "domain3.assess_selection_timing_bias" -> assess_selection_timing_bias(args)
      [] method = "domain7.assess_reported_results_bias" -> assess_reported_results_bias(args)
      [] method = "overall_assessor.assess_overall_bias_risk" -> assess_overall_bias_risk(args)
      [] method = "assess_domain_1_randomization" ->
             assess_domain_1_randomization(args[1], args[2], args[3])
      [] method = "assess_overall_rob2" -> assess_overall_rob2(args)

\* a method that keeps its pathway on the instance and appends to it
engine_method_ambient_pathway(self, method, args) ==
    LET r == engine_dispatch(method, args)
        kept == IF "pathway" \in DOMAIN self THEN self.pathway ELSE <<>>
        log == IF "pathway" \in DOMAIN r THEN kept \o r.pathway ELSE kept
    IN  [self |-> [domain_names |-> self.domain_names, pathway |-> log],
         returned |-> IF "pathway" \in DOMAIN r THEN [r EXCEPT !.pathway = log] ELSE r]

\* a method called on the instance: no method assigns to an attribute of
\* self, every list and dictionary it fills is a local of the call
engine_method(self, method, args) ==
    [self |-> self, returned |-> engine_dispatch(method, args)]

\* the instance the session runs on: a new one when the caller is idle
session_self == IF op = "idle" THEN ROBINSEEngine_init ELSE output.self

\* the values returned so far in the session
session_returned == IF op = "idle" THEN <<>> ELSE output.returned

\* one more call in the session: input is the sequence of calls made,
\* output holds the instance and the sequence of returned values
Session_call(method, args) ==
    /\ op \in {"idle", "ROBINSEEngine"}
    /\ Len(input) < MaxCalls
    /\ LET r == engine_method(session_self, method, args)
       IN  /\ op' = "ROBINSEEngine"
           /\ input' = Append(input, [method |-> method, args |-> args])
           /\ output' = [self |-> r.self, returned |-> Append(session_returned, r.returned)]

Session_assess_domain_1_confounding ==
    \E responses \in engine_domain_1_answer_sets :
        Session_call("assess_domain_1_confounding", <<responses, "B">>)

Session_assess_domain_3_selection ==
    \E responses \in engine_uniform_answer_sets(D3_questions) :
        Session_call("assess_domain_3_selection", responses)

Session_assess_selection_timing_bias ==
    \E v \in {"Y", "N", "NI"} :
        Session_call("domain3.assess_selection_timing_bias", [q \in D3_questions |-> D3_Response_of(v)])

Session_assess_reported_results_bias ==
    \E v \in {"Y", "N", "NI"} :
        Session_call("domain7.assess_reported_results_bias", [q \in D7_questions |-> D7_Response_of(v)])

Session_assess_overall_bias_risk ==
    \E level \in DomainRisk :
        Session_call("overall_assessor.assess_overall_bias_risk", [k \in DomainKeys |-> level])

Session_assess_domain_1_randomization ==
    \E a \in {<<"Y", "Y", "N">>, <<"NI", "PY", "Y">>} :
        Session_call("assess_domain_1_randomization", a)

Session_assess_overall_rob2 ==
    \E d \in {[i \in 1..5 |-> "Low"], [i \in 1..5 |-> "Some concerns"]} :
        Session_call("assess_overall_rob2", d)

\* sessions of up to MaxCalls calls on one engine instance
NextSession ==
    \/ Session_assess_domain_1_confounding
    \/ Session_assess_domain_3_selection
    \/ Session_assess_selection_timing_bias
    \/ Session_assess_reported_results_bias
    \/ Session_assess_overall_bias_risk
    \/ Session_assess_domain_1_randomization
    \/ Session_assess_overall_rob2
    \/ Return

SpecSession == Init /\ [][NextSession]_vars

\* the dictionary of the answers a[i][k] of question k of domain i
rob2_responses_of(a) ==
    [q \in Rob2Questions |->
        LET i == CHOOSE i \in 1..5 : \E k \in DOMAIN rob2_question_keys[i] :
                                        rob2_question_keys[i][k] = q
            k == CHOOSE k \in DOMAIN rob2_question_keys[i] : rob2_question_keys[i][k] = q
        IN  a[i][k]]

\* answer sets of domain 1 submitted on the two routes
rob2_domain_1_answer_sets ==
    { << "Y", "Y", "N" >>, << "NI", "PY", "Y" >>, << "Y", "NA", "N" >>, << "Y", "Y", KeyAbsent >> }

\* the raw answer sets of the two routes: one answer set per domain, all
\* answers in one spelling
RouteAnswerSets ==
    { rob2_responses_of(<< [k \in 1..3 |-> spelled(a1[k], spelling)],
                           [k \in 1..7 |-> spelled(a2[k], spelling)],
                           [k \in 1..4 |-> spelled(a3[k], spelling)],
                           [k \in 1..5 |-> spelled(a4[k], spelling)],
                           [k \in 1..3 |-> spelled(a5[k], spelling)] >>) :
        <<a1, a2, a3, a4, a5, spelling>> \in
            rob2_domain_1_answer_sets \X rob2_answer_sets[2] \X rob2_answer_sets[3]
            \X rob2_answer_sets[4] \X rob2_answer_sets[5] \X RawSpellings }

\* the assistant's proposal is validated: its answers and the risk it
\* proposes
Call__validate_assessment_logic ==
    /\ op = "idle"
    /\ \E questions \in RouteAnswerSets, risk_assessment \in {"", "Low"} :
        /\ op' = "_validate_assessment_logic"
        /\ input' = [questions |-> questions, risk_assessment |-> risk_assessment]
        /\ output' = _validate_assessment_logic(input')

\* the assessment is calculated from the answers a human entered
Call_calculate_automatic_rob2_assessment ==
    /\ op = "idle"
    /\ \E question_responses \in RouteAnswerSets :
        /\ op' = "calculate_automatic_rob2_assessment"
        /\ input' = [questions |-> question_responses]
        /\ output' = calculate_automatic_rob2_assessment(question_responses)

\* the assistant's route and the human route into the trial engine
NextRoutes ==
    \/ Call__validate_assessment_logic
    \/ Call_calculate_automatic_rob2_assessment
    \/ Return

SpecRoutes == Init /\ [][NextRoutes]_vars


\* the overall combinators of both instruments
NextCombinators ==
    \/ Call_assess_overall_rob2
    \/ Call_assess_overall_bias_risk
    \/ Return

SpecCombinators == Init /\ [][NextCombinators]_vars

(***************************************************************************)
(* Properties of the trial instrument                                      *)
(***************************************************************************)

\* the number of positions of the input holding v
InputCount(v) == Cardinality({i \in DOMAIN input : input[i] = v})

\* C1: for every assignment of Low / Some concerns / High to the five trial
\* domains, assess_overall_rob2 returns High if at least one domain is High;
\* otherwise Low if no domain is Some concerns; otherwise High if three or
\* more domains are Some concerns; otherwise Some concerns.  So one High
\* domain forces High, 3 Some concerns + 2 Low gives High and 2 Some
\* concerns + 3 Low gives Some concerns.
C1_OverallRob2Priority ==
    (op = "assess_overall_rob2" /\ \A i \in 1..5 : input[i] \in valid_risks) =>
        /\ output.status = "ok"
        /\ output.risk =
             IF InputCount("High") >= 1 THEN "High"
             ELSE IF InputCount("Some concerns") = 0 THEN "Low"
             ELSE IF InputCount("Some concerns") >= 3 THEN "High"
             ELSE "Some concerns"
        /\ (\E i \in 1..5 : input[i] = "High") => output.risk = "High"
        /\ (InputCount("Some concerns") = 3 /\ InputCount("Low") = 2) => output.risk = "High"
        /\ (InputCount("Some concerns") = 2 /\ InputCount("Low") = 3) => output.risk = "Some concerns"

\* C1 witness: three Some concerns and two Low were combined into High
C1_Witness ==
    /\ op = "assess_overall_rob2"
    /\ \A i \in 1..5 : input[i] \in valid_risks
    /\ InputCount("Some concerns") = 3
    /\ InputCount("Low") = 2
    /\ output.status = "ok"
    /\ output.risk = "High"

\* C4: for answers in {Y, PY, PN, N, NI} to 1.1, 1.2, 1.3, trial Domain 1 is
\* Low iff 1.2 is Y/PY and 1.3 is N/PN/NI and 1.1 is Y/PY/NI; High iff 1.2 is
\* N/PN, or 1.2 is NI with 1.3 Y/PY, or 1.1 is N/PN with 1.3 Y/PY; and Some
\* concerns in every other case.
C4_Domain1Rules ==
    (op = "assess_domain_1_randomization" /\ \A i \in 1..3 : input[i] \in valid_responses_5) =>
        LET low  == /\ input[2] \in {"Y", "PY"}
                    /\ input[3] \in {"N", "PN", "NI"}
                    /\ input[1] \in {"Y", "PY", "NI"}
            high == \/ input[2] \in {"N", "PN"}
                    \/ (input[2] = "NI" /\ input[3] \in {"Y", "PY"})
                    \/ (input[1] \in {"N", "PN"} /\ input[3] \in {"Y", "PY"})
        IN  /\ output.status = "ok"
            /\ (output.risk = "Low") <=> low
            /\ (output.risk = "High") <=> high
            /\ (output.risk = "Some concerns") <=> (~low /\ ~high)

\* C4 witness: non-random sequence with baseline imbalance under concealed
\* allocation was judged High
C4_Witness ==
    /\ op = "assess_domain_1_randomization"
    /\ input = <<"N", "Y", "PY">>
    /\ output.status = "ok"
    /\ output.risk = "High"

\* C5: for declared answers to 3.1 .. 3.4, trial Domain 3 is Low exactly when
\* 3.1 is Y/PY or 3.2 is Y/PY or 3.3 is N/PN (any one suffices, whatever the
\* other answers are), and High exactly when 3.1 is N/PN/NI, 3.2 is N/PN,
\* 3.3 is Y/PY/NI and 3.4 is Y/PY/NI.
C5_Domain3Rules ==
    (op = "assess_domain_3_missing_data" /\ \A i \in 1..4 : input[i] \in valid_responses_6) =>
        LET low  == \/ input[1] \in {"Y", "PY"}
                    \/ input[2] \in {"Y", "PY"}
                    \/ input[3] \in {"N", "PN"}
            high == /\ input[1] \in {"N", "PN", "NI"}
                    /\ input[2] \in {"N", "PN"}
                    /\ input[3] \in {"Y", "PY", "NI"}
                    /\ input[4] \in {"Y", "PY", "NI"}
        IN  /\ output.status = "ok"
            /\ (output.risk = "Low") <=> low
            /\ (output.risk = "High") <=> high

\* C5 witness: the third sufficiency condition alone (3.3 = N) gave Low
\* although 3.1 and 3.2 are negative and 3.4 is positive
C5_Witness ==
    /\ op = "assess_domain_3_missing_data"
    /\ input = <<"N", "N", "N", "Y">>
    /\ output.status = "ok"
    /\ output.risk = "Low"

\* C6: for declared answers to 4.1 .. 4.5, trial Domain 4 is High whenever
\* 4.1 is Y/PY, or 4.2 is Y/PY, or 4.3, 4.4 and 4.5 are all Y/PY/NI; and it
\* is Low only when 4.1 is N/PN/NI, 4.2 is N/PN, and either 4.3 is N/PN or
\* (4.3 is Y/PY/NI and 4.4 is N/PN).
C6_Domain4Rules ==
    (op = "assess_domain_4_outcome_measurement" /\ \A i \in 1..5 : input[i] \in valid_responses_6) =>
        LET severe == \/ input[1] \in {"Y", "PY"}
                      \/ input[2] \in {"Y", "PY"}
                      \/ \A i \in 3..5 : input[i] \in {"Y", "PY", "NI"}
            lowOk  == /\ input[1] \in {"N", "PN", "NI"}
                      /\ input[2] \in {"N", "PN"}
                      /\ \/ input[3] \in {"N", "PN"}
                         \/ (input[3] \in {"Y", "PY", "NI"} /\ input[4] \in {"N", "PN"})
        IN  /\ output.status = "ok"
            /\ severe => output.risk = "High"
            /\ (output.risk = "Low") => lowOk

\* C6 witness: the second severity condition alone (4.2 = PY) gave High
\* with an appropriate method and blinded assessors
C6_Witness ==
    /\ op = "assess_domain_4_outcome_measurement"
    /\ input = <<"N", "PY", "N", "N", "N">>
    /\ output.status = "ok"
    /\ output.risk = "High"

\* C7: for answers in {Y, PY, PN, N, NI} to 5.1, 5.2, 5.3, trial Domain 5 is
\* High iff 5.2 is Y/PY or 5.3 is Y/PY, whatever 5.1 is; Low iff 5.1 is Y/PY
\* and 5.2 and 5.3 are both N/PN; and Some concerns otherwise.
C7_Domain5Rules ==
    (op = "assess_domain_5_selective_reporting" /\ \A i \in 1..3 : input[i] \in valid_responses_5) =>
        LET high == input[2] \in {"Y", "PY"} \/ input[3] \in {"Y", "PY"}
            low  == /\ input[1] \in {"Y", "PY"}
                    /\ input[2] \in {"N", "PN"}
                    /\ input[3] \in {"N", "PN"}
        IN  /\ output.status = "ok"
            /\ (output.risk = "High") <=> high
            /\ (output.risk = "Low") <=> low
            /\ (output.risk = "Some concerns") <=> (~high /\ ~low)

\* C7 witness: without a pre-specified plan and with no selection signalled
\* the verdict was Some concerns, not Low
C7_Witness ==
    /\ op = "assess_domain_5_selective_reporting"
    /\ input = <<"N", "PN", "N">>
    /\ output.status = "ok"
    /\ output.risk = "Some concerns"

\* the fidelity sub-verdict of the current call with answer i replaced by v
Part1With(i, v) == assess_domain_2_deviations([input EXCEPT ![i] = v]).details.part1

\* the analysis sub-verdict of the current call with answer i replaced by v
Part2With(i, v) == assess_domain_2_deviations([input EXCEPT ![i] = v]).details.part2

\* C8: trial Domain 2 computes the intervention-fidelity sub-verdict from
\* 2.1 .. 2.5 only and the analysis sub-verdict from 2.6 .. 2.7 only; the
\* domain is Low iff both are Low, High iff at least one is High, and Some
\* concerns otherwise; changing an answer of one group never changes the
\* other group's sub-verdict.
C8_Domain2Parts ==
    (op = "assess_domain_2_deviations" /\ \A i \in 1..7 : input[i] \in valid_responses_6) =>
        /\ output.status = "ok"
        /\ output.details.part1 \in valid_risks
        /\ output.details.part2 \in valid_risks
        /\ (output.risk = "Low") <=>
               (output.details.part1 = "Low" /\ output.details.part2 = "Low")
        /\ (output.risk = "High") <=>
               (output.details.part1 = "High" \/ output.details.part2 = "High")
        /\ (output.risk = "Some concerns") <=>
               /\ ~(output.details.part1 = "Low" /\ output.details.part2 = "Low")
               /\ ~(output.details.part1 = "High" \/ output.details.part2 = "High")
        /\ \A i \in 6..7 : \A v \in valid_responses_6 :
               Part1With(i, v) = output.details.part1
        /\ \A i \in 1..5 : \A v \in valid_responses_6 :
               Part2With(i, v) = output.details.part2

\* C8 witness: a Low fidelity sub-verdict and a High analysis sub-verdict
\* were combined into High
C8_Witness ==
    /\ op = "assess_domain_2_deviations"
    /\ output.status = "ok"
    /\ output.details.part1 = "Low"
    /\ output.details.part2 = "High"
    /\ output.risk = "High"

(***************************************************************************)
(* Properties of the exposure instrument                                   *)
(***************************************************************************)

\* the number of domain keys at which the input dictionary holds v
InputKeys(v) == Cardinality({k \in DomainKeys : input[k] = v})

\* C2: for every assignment of the four risk levels to the seven exposure
\* domains the overall combinator applies the priority order: any Very high
\* gives Very high; else three or more High give Very high; else any High
\* gives High; else four or more Some concerns give High; else any Some
\* concerns gives Some concerns; else Low-with-confounding-caveat.  The
\* Low-with-caveat outcome is returned only when all seven domains are Low,
\* and no outcome is an unconditional Low.
C2_OverallRobinsEPriority ==
    (op = "assess_overall_bias_risk" /\ \A k \in DomainKeys : input[k] \in DomainRisk) =>
        /\ output.overall_risk =
             IF InputKeys(DomainRisk_VERY_HIGH_RISK) >= 1 THEN OverallRisk_VERY_HIGH_RISK
             ELSE IF InputKeys(DomainRisk_HIGH_RISK) >= 3 THEN OverallRisk_VERY_HIGH_RISK
             ELSE IF InputKeys(DomainRisk_HIGH_RISK) >= 1 THEN OverallRisk_HIGH_RISK
             ELSE IF InputKeys(DomainRisk_SOME_CONCERNS) >= 4 THEN OverallRisk_HIGH_RISK
             ELSE IF InputKeys(DomainRisk_SOME_CONCERNS) >= 1 THEN OverallRisk_SOME_CONCERNS
             ELSE OverallRisk_LOW_RISK_EXCEPT_CONFOUNDING
        /\ (output.overall_risk = OverallRisk_LOW_RISK_EXCEPT_CONFOUNDING) <=>
               (\A k \in DomainKeys : input[k] = DomainRisk_LOW_RISK)
        /\ output.overall_risk.value # "Low risk of bias"

\* C2 witness: exactly three High domains and no Very high were combined
\* into Very high
C2_Witness ==
    /\ op = "assess_overall_bias_risk"
    /\ \A k \in DomainKeys : input[k] \in DomainRisk
    /\ InputKeys(DomainRisk_HIGH_RISK) = 3
    /\ InputKeys(DomainRisk_VERY_HIGH_RISK) = 0
    /\ output.overall_risk = OverallRisk_VERY_HIGH_RISK
    /\ output.rationale = "several_high_risk_domains_additive"

\* C3: for every non-empty collection of per-domain conclusion-threat
\* judgments, assess_conclusion_threat returns Yes if any judgment is Yes;
\* otherwise Cannot tell if any judgment is Cannot tell; otherwise No.
C3_ThreatReduction ==
    (op = "assess_conclusion_threat" /\ \E k \in DomainKeys : input[k] # None) =>
        output.conclusion_threat =
            IF InputKeys(ConclusionThreat_YES) >= 1 THEN ConclusionThreat_YES
            ELSE IF InputKeys(ConclusionThreat_CANNOT_TELL) >= 1 THEN ConclusionThreat_CANNOT_TELL
            ELSE ConclusionThreat_NO

\* the number of questions 7.2 .. 7.5 whose answer in the input is in S
D7_InputCount(S) == Cardinality({i \in 1..4 : input[D7_selection_questions[i]] \in S})

\* the verdict the affirmative count among 7.2 .. 7.5 determines
D7_VerdictByCount ==
    IF D7_InputCount({D7_Response_of("Y"), D7_Response_of("PY")}) = 0
    THEN IF D7_InputCount({D7_Response_of("N"), D7_Response_of("PN")}) = 4
         THEN D7_LOW_RISK ELSE D7_SOME_CONCERNS
    ELSE IF D7_InputCount({D7_Response_of("Y"), D7_Response_of("PY")}) <= 2
    THEN D7_HIGH_RISK
    ELSE D7_VERY_HIGH_RISK

\* C9 as stated: for every complete answer set of the Reported-results
\* domain the verdict is determined by the number of affirmative answers
\* among 7.2 .. 7.5: none with all four N/PN gives Low, none with an NI gives
\* Some concerns, one or two give High, three or four give Very high.
C9_Original_CountDecidesAlways ==
    (op = "assess_reported_results_bias" /\ \A q \in D7_questions : input[q] # None) =>
        output.risk_level = D7_VerdictByCount

\* C9 amended: for every complete answer set in which 7.1 is N, PN or NI the
\* verdict is determined by the number of affirmative answers among
\* 7.2 .. 7.5 as stated; when 7.1 is Y or PY the verdict is Low whatever
\* 7.2 .. 7.5 are.
C9_CountDecidesOffPlan ==
    (op = "assess_reported_results_bias" /\ \A q \in D7_questions : input[q] # None) =>
        IF D7_is_positive_response(input["q7_1_result_according_plan"])
        THEN output.risk_level = D7_LOW_RISK
        ELSE output.risk_level = D7_VerdictByCount

\* C9 witness: 7.1 answered No and exactly two of 7.2 .. 7.5 affirmative
\* gave High
C9_Witness ==
    /\ op = "assess_reported_results_bias"
    /\ \A q \in D7_questions : input[q] # None
    /\ input["q7_1_result_according_plan"] = D7_Response_of("N")
    /\ D7_InputCount({D7_Response_of("Y"), D7_Response_of("PY")}) = 2
    /\ output.risk_level = D7_HIGH_RISK

\* C10: the Selection/Timing evaluator derives a timing-pathway risk and a
\* selection-pathway risk, each Low, Some concerns or High, and combines
\* them: both Low give Low; at least one Some concerns and neither High give
\* Some concerns; if either is High, then 3.6 answered Y/PY gives Some
\* concerns, otherwise 3.7 answered Y/PY gives Some concerns, answered
\* Weak-No gives High and answered Strong-No gives Very high.
C10_Domain3Combination ==
    (op = "assess_selection_timing_bias") =>
        LET a == output.pathway_a_risk
            b == output.pathway_b_risk
            q3_6 == input["q3_6_analysis_corrected"]
            q3_7 == input["q3_7_sensitivity_analysis"]
        IN  /\ a \in PathwayRisk
            /\ b \in PathwayRisk
            /\ a = D3_assess_pathway_a(input)[1]
            /\ b = D3_assess_pathway_b(input)[1]
            /\ (a = PathwayRisk_LOW_RISK /\ b = PathwayRisk_LOW_RISK)
                   => output.risk_level = D3_LOW_RISK
            /\ ((a = PathwayRisk_SOME_CONCERNS \/ b = PathwayRisk_SOME_CONCERNS)
                    /\ a # PathwayRisk_HIGH_RISK /\ b # PathwayRisk_HIGH_RISK)
                   => output.risk_level = D3_SOME_CONCERNS
            /\ (a = PathwayRisk_HIGH_RISK \/ b = PathwayRisk_HIGH_RISK) =>
                   IF D3_is_positive_response(q3_6)
                   THEN output.risk_level = D3_SOME_CONCERNS
                   ELSE /\ D3_is_positive_response(q3_7) => output.risk_level = D3_SOME_CONCERNS
                        /\ q3_7 = D3_Response_of("WN") => output.risk_level = D3_HIGH_RISK
                        /\ q3_7 = D3_Response_of("SN") => output.risk_level = D3_VERY_HIGH_RISK

\* C10 witness: a High selection pathway beside a Low timing pathway, not
\* corrected (3.6 = N), with 3.7 answered Strong-No gave Very high
C10_Witness ==
    /\ op = "assess_selection_timing_bias"
    /\ output.pathway_a_risk = PathwayRisk_LOW_RISK
    /\ output.pathway_b_risk = PathwayRisk_HIGH_RISK
    /\ input["q3_6_analysis_corrected"] = D3_Response_of("N")
    /\ input["q3_7_sensitivity_analysis"] = D3_Response_of("SN")
    /\ output.risk_level = D3_VERY_HIGH_RISK

(***************************************************************************)
(* Properties of the complete trial assessment                             *)
(***************************************************************************)

\* the documented end-to-end scenario
Rob2Scenario ==
    /\ rob2_domain_answers(input, 1) = << "Y", "Y", "N" >>
    /\ rob2_domain_answers(input, 2) = << "N", "N", "NA", "NA", "NA", "Y", "NA" >>
    /\ rob2_domain_answers(input, 3) = << "Y", "NA", "NA", "NA" >>
    /\ rob2_domain_answers(input, 4) = << "N", "N", "N", "NA", "NA" >>
    /\ rob2_domain_answers(input, 5) = << "Y", "N", "N" >>

\* the key of results holding domain i
Rob2DomainKey(i) == << "domain_1", "domain_2", "domain_3", "domain_4", "domain_5" >>[i]

\* C12: calculate_rob2_assessment composes the trial evaluators: when no
\* evaluator raises, each domain whose questions are all present gets exactly
\* the risk and reasoning its evaluator returns for those answers, a domain
\* with a question missing gets no entry, and the overall entry exists iff
\* all five domains have one and then equals assess_overall_rob2 of the five
\* domain risks; the documented scenario returns five Low domains and
\* overall Low.
C12_Composition ==
    op = "calculate_rob2_assessment" =>
        LET present == {i \in 1..5 : \A k \in DOMAIN rob2_question_keys[i] :
                                        input[rob2_question_keys[i][k]] # KeyAbsent}
            declared == \A i \in present : \A k \in DOMAIN rob2_question_keys[i] :
                            input[rob2_question_keys[i][k]] \in
                                (IF i \in {1, 5} THEN valid_responses_5 ELSE valid_responses_6)
            r == output.results
            a(i) == rob2_domain_answers(input, i)
            risks == [i \in 1..5 |-> r[Rob2DomainKey(i)].risk]
        IN  /\ declared => output.status = "ok"
            /\ output.status = "ok" =>
                /\ \A i \in (1..5) \ present : r[Rob2DomainKey(i)] = None
                /\ 1 \in present =>
                    /\ r["domain_1"].risk = assess_domain_1_randomization(a(1)[1], a(1)[2], a(1)[3]).risk
                    /\ r["domain_1"].reasoning = assess_domain_1_randomization(a(1)[1], a(1)[2], a(1)[3]).reasoning
                /\ 2 \in present =>
                    /\ r["domain_2"].risk = assess_domain_2_deviations(a(2)).risk
                    /\ r["domain_2"].reasoning = assess_domain_2_deviations(a(2)).reasoning
                /\ 3 \in present =>
                    /\ r["domain_3"].risk = assess_domain_3_missing_data(a(3)[1], a(3)[2], a(3)[3], a(3)[4]).risk
                    /\ r["domain_3"].reasoning = assess_domain_3_missing_data(a(3)[1], a(3)[2], a(3)[3], a(3)[4]).reasoning
                /\ 4 \in present =>
                    /\ r["domain_4"].risk = assess_domain_4_outcome_measurement(a(4)[1], a(4)[2], a(4)[3], a(4)[4], a(4)[5]).risk
                    /\ r["domain_4"].reasoning = assess_domain_4_outcome_measurement(a(4)[1], a(4)[2], a(4)[3], a(4)[4], a(4)[5]).reasoning
                /\ 5 \in present =>
                    /\ r["domain_5"].risk = assess_domain_5_selective_reporting(a(5)[1], a(5)[2], a(5)[3]).risk
                    /\ r["domain_5"].reasoning = assess_domain_5_selective_reporting(a(5)[1], a(5)[2], a(5)[3]).reasoning
                /\ (r["overall"] # None) <=> (present = 1..5)
                /\ present = 1..5 =>
                    /\ r["overall"].risk = assess_overall_rob2(risks).risk
                    /\ r["overall"].reasoning = assess_overall_rob2(risks).reasoning
            /\ Rob2Scenario =>
                /\ output.status = "ok"
                /\ \A i \in 1..5 : output.results[Rob2DomainKey(i)].risk = "Low"
                /\ output.results["overall"].risk = "Low"

\* C12 witness: the documented scenario was evaluated and gave overall Low
C12_Witness ==
    /\ op = "calculate_rob2_assessment"
    /\ Rob2Scenario
    /\ output.status = "ok"
    /\ output.results["overall"] # None
    /\ output.results["overall"].risk = "Low"

(***************************************************************************)
(* Properties of the trial evaluators' alphabets                           *)
(***************************************************************************)

\* the declared tokens of trial domains 1 and 5
Declared5 == {"Y", "PY", "PN", "N", "NI"}

\* the declared tokens of trial domains 2, 3 and 4
Declared6 == Declared5 \cup {"NA"}

\* the declared alphabet of the evaluator that was called
DeclaredOfOp ==
    IF op \in {"assess_domain_1_randomization", "assess_domain_5_selective_reporting"}
    THEN Declared5 ELSE Declared6

\* TRUE iff a trial domain evaluator was called
TrialDomainCalled ==
    op \in {"assess_domain_1_randomization", "assess_domain_2_deviations",
            "assess_domain_3_missing_data", "assess_domain_4_outcome_measurement",
            "assess_domain_5_selective_reporting"}

\* C14: every trial domain evaluator is total over its declared alphabet: on
\* every combination of declared tokens it returns a verdict whose risk is
\* Low, Some concerns or High, never an error and never another level.
C14_TrialEvaluatorsTotal ==
    (TrialDomainCalled /\ \A i \in DOMAIN input : input[i] \in DeclaredOfOp) =>
        /\ output.status = "ok"
        /\ output.risk \in {"Low", "Some concerns", "High"}

\* C14 witness: domain 5 was called on declared tokens including NI and
\* returned Some concerns
C14_Witness ==
    /\ op = "assess_domain_5_selective_reporting"
    /\ \A i \in DOMAIN input : input[i] \in Declared5
    /\ \E i \in DOMAIN input : input[i] = "NI"
    /\ output.status = "ok"
    /\ output.risk = "Some concerns"

\* C15: a trial domain evaluator given any answer that, upper-cased, is not a
\* token of its declared alphabet (NA included for domains 1 and 5) raises a
\* validation error and returns no verdict; given only answers that
\* upper-case to declared tokens it returns a verdict.
C15_InvalidTokenRejected ==
    TrialDomainCalled =>
        /\ (\E i \in DOMAIN input : Upper(input[i]) \notin DeclaredOfOp) =>
                /\ output.status = "ValueError"
                /\ "risk" \notin DOMAIN output
        /\ (\A i \in DOMAIN input : Upper(input[i]) \in DeclaredOfOp) =>
                output.status = "ok"

\* C15 witness: domain 1 was called with NA among otherwise declared tokens
\* and raised the validation error
C15_Witness ==
    /\ op = "assess_domain_1_randomization"
    /\ \E i \in DOMAIN input : input[i] = "NA"
    /\ \A i \in DOMAIN input : input[i] \in Declared6
    /\ output.status = "ValueError"

(***************************************************************************)
(* Properties of the assessor override                                     *)
(***************************************************************************)

\* the verdict the trial combinator computes from the five risks alone
ComputedOverall == assess_overall_rob2(input.d)

\* TRUE iff the call carried an override that is a valid level other than the
\* computed one
OverrideChanges ==
    /\ input.assessor_override # None
    /\ input.assessor_override.value \in {"Low", "Some concerns", "High"}
    /\ input.assessor_override.value # ComputedOverall.risk

\* TRUE iff the call carried no override or the computed level as override
OverrideAbsentOrEqual ==
    \/ input.assessor_override = None
    \/ input.assessor_override.value = ComputedOverall.risk

\* C19: given an override that is a valid level different from the computed
\* one, the combinator returns the override and a rationale that holds the
\* computed rationale followed by a note recording the computed level, the
\* override and the justification; with no override or an override equal to
\* the computed level it returns the computed risk and rationale unchanged.
C19_OverrideApplied ==
    (op = "parallel_assess_overall_rob2" /\ output.status = "ok") =>
        /\ OverrideChanges =>
            /\ output.risk = input.assessor_override.value
            /\ Len(output.reasoning) = Len(ComputedOverall.reasoning) + 1
            /\ SubSeq(output.reasoning, 1, Len(ComputedOverall.reasoning)) = ComputedOverall.reasoning
            /\ output.reasoning[Len(output.reasoning)][2] =
                  <<ComputedOverall.risk, input.assessor_override.value, input.override_justification>>
        /\ OverrideAbsentOrEqual =>
            /\ output.risk = ComputedOverall.risk
            /\ output.reasoning = ComputedOverall.reasoning

\* C19 witness: a computed Low was overridden to High with a justification
C19_Witness ==
    /\ op = "parallel_assess_overall_rob2"
    /\ output.status = "ok"
    /\ ComputedOverall.risk = "Low"
    /\ input.assessor_override = Str("High")
    /\ input.override_justification # ""
    /\ output.risk = "High"

\* C20: an override that would change the computed level and carries no
\* justification text is rejected: the combinator returns an error and not
\* the overridden level.
C20_OverrideNeedsJustification ==
    (/\ op = "parallel_assess_overall_rob2"
     /\ ComputedOverall.status = "ok"
     /\ OverrideChanges
     /\ input.override_justification = "") =>
        /\ output.status # "ok"
        /\ "risk" \notin DOMAIN output

(***************************************************************************)
(* Properties of the exposure-instrument confounding domain                *)
(***************************************************************************)

\* TRUE iff every question of the set Q is answered in the responses r
Answered(r, Q) == \A q \in Q : r[q] # None

\* C11: assess_bias_risk of the confounding domain dispatches on the variant:
\* 'A' or 'a' runs the tree whose first step is "Controlled for all important
\* confounding factors", 'B' or 'b' runs the tree whose first step is
\* "Appropriate analysis method", every other variant raises ValueError; and
\* when all questions of the chosen tree are answered the result has exactly
\* one of the four risk levels and records the variant that was run.
C11_VariantDispatch ==
    op = "D1_assess_bias_risk" =>
        LET responses == input[1]
            variant == input[2]
        IN  /\ variant \notin {"A", "a", "B", "b"} =>
                output = Raise("ValueError", Step("Variant must be 'A' or 'B'", ""))
            /\ (variant \in {"A", "a"} /\ Answered(responses, D1_questions_a)) =>
                /\ ~Raised(output)
                /\ output.variant = "A"
                /\ output.risk_level \in D1_RiskLevel
                /\ output.pathway[1] =
                      Step("Q1.1 Controlled for all important confounding factors? -> ",
                           responses["q1_1_controlled_important"].value)
            /\ (variant \in {"B", "b"} /\ Answered(responses, D1_questions_b)) =>
                /\ ~Raised(output)
                /\ output.variant = "B"
                /\ output.risk_level \in D1_RiskLevel
                /\ output.pathway[1] =
                      Step("Q1.1 Appropriate analysis method? -> ",
                           responses["q1_1_appropriate_method"].value)

\* C11 witness: variant 'a' ran tree A on a complete answer set and ended in
\* Very high
C11_Witness ==
    /\ op = "D1_assess_bias_risk"
    /\ input[2] = "a"
    /\ Answered(input[1], D1_questions_a)
    /\ ~Raised(output)
    /\ output.variant = "A"
    /\ output.risk_level = D1_VERY_HIGH_RISK

(***************************************************************************)
(* Properties of the exposure-instrument engine                            *)
(***************************************************************************)

\* the canonical token a raw answer denotes ("" when it denotes none)
Denotes(raw) ==
    CASE raw = "yes" -> "Y"
      [] raw = "probably_no" -> "PN"
      [] raw = "no_information" -> "NI"
      [] raw = "not_applicable" -> "NA"
      [] raw = "Y" -> "Y"
      [] raw = "pn" -> "PN"
      [] raw = "WN" -> "WN"
      [] OTHER -> ""

\* TRUE iff the raw answer set r answers every question of Q with a token of
\* the alphabet
ValidAnswerSet(r, Q, alphabet) == \A q \in Q : r[q] # KeyAbsent /\ Denotes(r[q]) \in alphabet

\* C13: for a valid answer set, the engine's evaluate-one-domain operation
\* returns the risk level and the pathway that the domain's own evaluator
\* computes for the denoted answers (stated for the domains 1, 3, 4 and 7).
C13_EngineRunsDomainTree ==
    /\ (/\ op = "assess_domain_1_confounding"
        /\ input[2] = "A"
        /\ ValidAnswerSet(input[1], D1_questions_a, {"Y", "PY", "N", "PN", "NI", "SN", "WN", "VPY"})) =>
            LET answers == [q \in D1_questions |->
                               IF q \in D1_questions_a THEN D1_Response_of(Denotes(input[1][q])) ELSE None]
                verdict == D1_variant_a_algorithm(answers)
            IN  /\ output.risk_level = verdict.risk_level.value
                /\ "pathway" \in DOMAIN output
                /\ output.pathway = verdict.pathway
    /\ (/\ op = "assess_domain_3_selection"
        /\ ValidAnswerSet(input, D3_questions, {"Y", "PY", "N", "PN", "NI", "SN", "WN"})) =>
            LET verdict == assess_selection_timing_bias([q \in D3_questions |-> D3_Response_of(Denotes(input[q]))])
            IN  /\ output.risk_level = verdict.risk_level.value
                /\ "pathway" \in DOMAIN output
                /\ output.pathway = verdict.pathway
    /\ (/\ op = "assess_domain_4_post_exposure_interventions"
        /\ ValidAnswerSet(input, D4_questions, {"Y", "PY", "N", "PN", "NI"})) =>
            LET verdict == assess_post_exposure_interventions_bias(
                               [q \in D4_questions |-> D4_Response_of(Denotes(input[q]))])
            IN  /\ output.risk_level = verdict.risk_level.value
                /\ "pathway" \in DOMAIN output
                /\ output.pathway = verdict.pathway
    /\ (/\ op = "assess_domain_7_reported_result"
        /\ ValidAnswerSet(input, D7_questions, {"Y", "PY", "N", "PN", "NI"})) =>
            LET verdict == assess_reported_results_bias([q \in D7_questions |-> D7_Response_of(Denotes(input[q]))])
            IN  /\ output.risk_level = verdict.risk_level.value
                /\ "pathway" \in DOMAIN output
                /\ output.pathway = verdict.pathway

\* the tokens of the Response enumeration the normalizer converts to
EngineAlphabet == {"Y", "PY", "N", "PN", "NI", "SN", "WN", "VPY"}

\* C16: _convert_response maps a raw answer to the canonical token it
\* denotes, rejects every raw answer that denotes no token of the alphabet,
\* and converts to NoInformation only a raw answer that denotes
\* NoInformation.
C16_NormalizerNeverCoerces ==
    op = "_convert_response" =>
        /\ Denotes(input) \in EngineAlphabet => output = D1_Response_of(Denotes(input))
        /\ Denotes(input) \notin EngineAlphabet => Raised(output)
        /\ output = D1_Response_of("NI") => Denotes(input) = "NI"

(***************************************************************************)
(* Properties of the exposure-instrument evaluators on incomplete input    *)
(***************************************************************************)

\* the questions the called evaluator's tree needs for the given answers and
\* finds absent
NeededAbsent ==
    CASE op = "assess_post_exposure_interventions_bias" ->
            {q \in {"q4_1_post_exposure_interventions"} : input[q] = None}
            \cup {q \in {"q4_2_analysis_corrected"} :
                    /\ input[q] = None
                    /\ input["q4_1_post_exposure_interventions"] \in
                          {D4_Response_of("Y"), D4_Response_of("PY"), D4_Response_of("NI")}}
      [] op = "assess_reported_results_bias" ->
            {q \in {"q7_1_result_according_plan"} : input[q] = None}
            \cup {q \in D7_questions \ {"q7_1_result_according_plan"} :
                    /\ input[q] = None
                    /\ input["q7_1_result_according_plan"] \in
                          {D7_Response_of("N"), D7_Response_of("PN"), D7_Response_of("NI")}}
      [] op = "D1_assess_bias_risk" ->
            {q \in {"q1_1_controlled_important"} : input[2] \in {"A", "a"} /\ input[1][q] = None}
            \cup {q \in {"q1_1_appropriate_method"} : input[2] \in {"B", "b"} /\ input[1][q] = None}
      [] OTHER -> {}

\* TRUE iff the outcome of the call names q as missing
ReportsMissing(q) ==
    \/ /\ "missing_questions" \in DOMAIN output
       /\ \E i \in DOMAIN output.missing_questions : output.missing_questions[i] = q
    \/ /\ Raised(output)
       /\ output.message[2] = q

\* C17: when a question the tree needs is absent from the input, the
\* exposure-instrument domain evaluator returns no risk level and reports
\* the missing question.
C17_MissingAnswerRefused ==
    \A q \in NeededAbsent :
        /\ "risk_level" \notin DOMAIN output
        /\ ReportsMissing(q)

(***************************************************************************)
(* Properties of the exposure-instrument overall operations                *)
(***************************************************************************)

\* the domain keys for which the called operation was given nothing
MissingDomains ==
    CASE op \in {"assess_overall_bias_risk", "assess_overall_bias"} ->
            {k \in DomainKeys : input[k] = None}
      [] op = "complete_assessment" -> {k \in DomainKeys : input[1][k] = None}
      [] OTHER -> {}

\* the overall result of the called operation (None when there is none)
OverallResult ==
    IF op = "complete_assessment" THEN output["overall"] ELSE output

\* C18: when at least one of the seven domains is missing, no overall risk
\* level is produced by assess_overall_bias_risk, assess_overall_bias or
\* complete_assessment: the outcome is an error that identifies the missing
\* domains.
C18_MissingDomainNotScored ==
    (op \in {"assess_overall_bias_risk", "assess_overall_bias", "complete_assessment"}
        /\ MissingDomains # {}) =>
            \/ OverallResult = None
            \/ /\ "overall_risk" \notin DOMAIN OverallResult
               /\ "missing_domains" \in DOMAIN OverallResult
               /\ {OverallResult.missing_domains[i] : i \in DOMAIN OverallResult.missing_domains}
                      = MissingDomains

(***************************************************************************)
(* Properties of the Low verdicts of the exposure-instrument evaluators    *)
(***************************************************************************)

\* the answer the called domain 1 tree reads last: the negative-controls
\* question of the variant
D1_DecidingAnswer ==
    IF Upper(input[2]) = "A" THEN input[1]["q1_4_negative_controls"]
    ELSE input[1]["q1_5_negative_controls"]

\* the answers to the negative-controls question that deny serious
\* uncontrolled confounding
D1_Denials == {D1_Response_of(v) : v \in {"N", "PN", "SN", "WN"}}

\* C21: no Low verdict comes from a default. Domain 1 returns Low only when
\* the negative-controls answer is a denial (never on No information or on a
\* token no rule tests for), domain 4 only when 4.1 is N/PN, domain 7 only
\* when 7.1 is Y/PY or all of 7.2-7.5 are N/PN.
C21_NoDefaultToLow ==
    /\ (op = "D1_assess_bias_risk" /\ ~Raised(output) /\ output.risk_level = D1_LOW_RISK)
          => D1_DecidingAnswer \in D1_Denials
    /\ (op = "assess_post_exposure_interventions_bias" /\ output.risk_level = D4_LOW_RISK)
          => D4_is_negative_response(input["q4_1_post_exposure_interventions"])
    /\ (op = "assess_reported_results_bias" /\ output.risk_level = D7_LOW_RISK)
          => \/ D7_is_positive_response(input["q7_1_result_according_plan"])
             \/ \A i \in 1..4 : D7_is_negative_response(input[D7_selection_questions[i]])

(***************************************************************************)
(* Properties of the forms of a supplied domain verdict                    *)
(***************************************************************************)

\* the level a supplied verdict stands for, read off its text
LevelDenoted(verdict) ==
    CASE verdict.value \in {"Low risk of bias",
                            "Low risk of bias (except for concerns about uncontrolled confounding)"}
              -> DomainRisk_LOW_RISK
      [] verdict.value = "Some concerns" -> DomainRisk_SOME_CONCERNS
      [] verdict.value = "High risk of bias" -> DomainRisk_HIGH_RISK
      [] verdict.value = "Very high risk of bias" -> DomainRisk_VERY_HIGH_RISK

\* C22: a verdict supplied as DomainRisk member, as the domain's own
\* RiskLevel member or as text label normalizes to the level it stands for,
\* and the overall result is the one of the seven levels supplied as
\* DomainRisk members.
C22_FormsNormalizeAlike ==
    op = "assess_overall_bias_risk" =>
        LET levels == [k \in DomainKeys |-> LevelDenoted(input[k])]
        IN  /\ \A k \in DomainKeys : _normalize_risk_level(input[k]) = levels[k]
            /\ output = assess_overall_bias_risk(levels)
            /\ "risk_counts" \in DOMAIN output

\* seven Low verdicts, domain 1 as its own enum member with the confounding
\* label, others as text and as DomainRisk members: overall Low with caveat
C22_Witness ==
    /\ op = "assess_overall_bias_risk"
    /\ input["domain_1"] = D1_LOW_RISK
    /\ input["domain_2"] = Str("Low risk of bias")
    /\ input["domain_5"] = DomainRisk_LOW_RISK
    /\ output.overall_risk = OverallRisk_LOW_RISK_EXCEPT_CONFOUNDING

(***************************************************************************)
(* Properties of the conclusion-threat assessor on empty input             *)
(***************************************************************************)

\* C23: assess_conclusion_threat called with no domain judgment returns
\* Cannot tell with the rationale that no threat assessments were provided;
\* it does not fail.
C23_EmptyThreatInput ==
    (op = "assess_conclusion_threat" /\ \A k \in DomainKeys : input[k] = None) =>
        /\ ~Raised(output)
        /\ output.conclusion_threat = ConclusionThreat_CANNOT_TELL
        /\ output.rationale = "no_threat_assessments_provided"

\* the assessor has returned on the empty dictionary
C23_Witness ==
    /\ op = "assess_conclusion_threat"
    /\ \A k \in DomainKeys : input[k] = None
    /\ output.conclusion_threat = ConclusionThreat_CANNOT_TELL

(***************************************************************************)
(* Properties of repeated calls                                            *)
(***************************************************************************)

AssistantRoute == llm_engine_results(input.questions)

\* what the human route computes for the raw answers
HumanRoute == calculate_automatic_rob2_assessment(input.questions).returned

\* TRUE iff the route produced no verdict: the engine was not run or an
\* evaluator rejected an answer
RouteRejects(r) == r = None \/ r.status = "ValueError"

\* C25: the same raw answer set gives the same outcome on both routes: the
\* same tokens reach the engine and the same domain and overall verdicts
\* come back, or both routes produce no verdict.
C25_RoutesAgree ==
    op \in {"_validate_assessment_logic", "calculate_automatic_rob2_assessment"} =>
        \/ RouteRejects(AssistantRoute) /\ RouteRejects(HumanRoute)
        \/ /\ ~RouteRejects(AssistantRoute)
           /\ ~RouteRejects(HumanRoute)
           /\ llm_responses(input.questions) = view_responses(input.questions)
           /\ AssistantRoute = HumanRoute

(***************************************************************************)
(* Properties of the pathway of the exposure-instrument evaluators         *)
(***************************************************************************)

\* the text of the pathway step that names a question; the evaluators have
\* no step text for a question mapped to ""
StepText(q) ==
    CASE q = "q1_1_appropriate_method" -> "Q1.1 Appropriate analysis method? -> "
      [] q = "q1_2_controlled_important" -> "Q1.2 Controlled for all important confounding factors? -> "
      [] q = "q1_3_factors_measured" -> "Q1.3 Confounding factors measured validly and reliably? -> "
      [] q = "q1_4_post_exposure_vars" ->
             "Q1.4 Controlled for variables measured after start of exposure? -> "
      [] q = "q1_5_negative_controls" ->
             "Q1.5 Negative controls suggest serious uncontrolled confounding? -> "
      [] q = "q1_1_controlled_important" -> "Q1.1 Controlled for all important confounding factors? -> "
      [] q = "q1_3_post_exposure" -> "Q1.3 Control for any post-exposure variables? -> "
      [] q = "q1_2_factors_measured" -> "Q1.2 Confounding factors measured validly and reliably? -> "
      [] q = "q1_4_negative_controls" ->
             "Q1.4 Negative controls suggest serious uncontrolled confounding? -> "
      [] q = "q4_1_post_exposure_interventions" ->
             "Q4.1 Were there post-exposure interventions influenced by exposure? -> "
      [] q = "q4_2_analysis_corrected" -> "Q4.2 Likely that analysis corrected for effect of these? -> "
      [] q = "q7_1_result_according_plan" -> "Q7.1 Result reported according to analysis plan? -> "
      [] OTHER -> ""

\* the answers given to the called evaluator
GivenAnswers == IF op = "D1_assess_bias_risk" THEN input[1] ELSE input

\* the evaluator called again with the answer to q replaced by v
Reevaluated(q, v) ==
    CASE op = "D1_assess_bias_risk" -> D1_assess_bias_risk([input[1] EXCEPT ![q] = v], input[2])
      [] op = "assess_post_exposure_interventions_bias" ->
             assess_post_exposure_interventions_bias([input EXCEPT ![q] = v])
      [] op = "assess_reported_results_bias" ->
             assess_reported_results_bias([input EXCEPT ![q] = v])

\* the answers a question of the called evaluator can take
AnswersOfOp ==
    CASE op = "D1_assess_bias_risk" -> D1_Response
      [] op = "assess_post_exposure_interventions_bias" -> D4_Response
      [] op = "assess_reported_results_bias" -> D7_Response

\* TRUE iff the returned pathway has a question->answer step for q
HasStep(q) ==
    \E i \in DOMAIN output.pathway : output.pathway[i] = Step(StepText(q), GivenAnswers[q].value)

\* C26: the pathway is the trace of the questions consulted. Every step
\* that names a question carries the answer given to it, and an answered
\* question without a step has no influence: replacing its answer by any
\* other leaves the risk level unchanged.
C26_PathwayTracesQuestions ==
    (/\ op \in {"D1_assess_bias_risk", "assess_post_exposure_interventions_bias",
                "assess_reported_results_bias"}
     /\ ~Raised(output)) =>
        \A q \in DOMAIN GivenAnswers :
            /\ \A i \in DOMAIN output.pathway :
                  (StepText(q) # "" /\ output.pathway[i][1] = StepText(q))
                      => output.pathway[i][2] = GivenAnswers[q].value
            /\ (GivenAnswers[q] # None /\ ~HasStep(q)) =>
                  \A v \in AnswersOfOp : Reevaluated(q, v).risk_level = output.risk_level


(***************************************************************************)
(* Properties of the fallback branches of the Selection/Timing pathways    *)
(***************************************************************************)

\* TRUE iff _assess_pathway_a leaves through its "Default fallback" return:
\* both questions are answered and no test of question 3.2 succeeded
D3_pathway_a_falls_back(responses) ==
    LET q3_1 == responses["q3_1_timing_coincide"]
        q3_2 == responses["q3_2_effect_constant"]
    IN  /\ q3_1 # None
        /\ q3_2 # None
        /\ IF D3_is_positive_response(q3_1)
           THEN /\ ~D3_is_positive_response(q3_2)
                /\ ~D3_is_positive_or_ni(q3_2)
                /\ ~D3_is_negative_response(q3_2)
           ELSE /\ ~D3_is_positive_response(q3_2)
                /\ ~D3_is_positive_or_ni(q3_2)
                /\ ~D3_is_negative_response(q3_2)

\* TRUE iff _assess_pathway_b leaves through its "Default fallback" return
D3_pathway_b_falls_back(responses) ==
    LET q3_3 == responses["q3_3_selection_after_start"]
        q3_4 == responses["q3_4_selection_by_exposure"]
        q3_5 == responses["q3_5_selection_by_outcome"]
    IN  /\ q3_3 # None
        /\ ~D3_is_positive_response(q3_3)
        /\ q3_3 # D3_Response_of("NI")
        /\ D3_is_negative_response(q3_3) =>
              /\ q3_4 # None
              /\ q3_4 # D3_Response_of("NI")
              /\ D3_is_negative_response(q3_4) =>
                    /\ q3_5 # None
                    /\ ~D3_is_negative_response(q3_5)
                    /\ ~D3_is_positive_response(q3_5)
              /\ (~D3_is_negative_response(q3_4) /\ D3_is_positive_response(q3_4)) =>
                    /\ q3_5 # None
                    /\ ~D3_is_negative_or_ni(q3_5)
                    /\ ~D3_is_positive_response(q3_5)

\* the entries of a pathway log without the answers echoed in them
LogTexts(pathway_log) == [i \in 1..Len(pathway_log) |-> pathway_log[i][1]]

\* a pathway verdict as a reader of the log sees it: risk and entries
Marked(verdict) == <<verdict[1], LogTexts(verdict[2])>>

\* no question of the domain answered
D3_unanswered == [q \in D3_questions |-> None]

\* the verdicts _assess_pathway_a reaches through a return other than the fallback
RuleMatchedA ==
    { Marked(D3_assess_pathway_a(r)) :
        r \in { s \in { [D3_unanswered EXCEPT !["q3_1_timing_coincide"] = a,
                                              !["q3_2_effect_constant"] = b] :
                          a, b \in D3_Response \cup {None} } :
                ~D3_pathway_a_falls_back(s) } }

\* the verdicts _assess_pathway_b reaches through a return other than the fallback
RuleMatchedB ==
    { Marked(D3_assess_pathway_b(r)) :
        r \in { s \in { [D3_unanswered EXCEPT !["q3_3_selection_after_start"] = a,
                                              !["q3_4_selection_by_exposure"] = b,
                                              !["q3_5_selection_by_outcome"] = c] :
                          a, b, c \in D3_Response \cup {None} } :
                ~D3_pathway_b_falls_back(s) } }

\* C27: a pathway verdict reached through the fallback return carries a
\* marker: its risk and log entries (apart from the answers echoed in the
\* question steps) are those of no rule-matched verdict, in the timing
\* pathway and in the selection pathway.
C27_FallbackMarked ==
    op = "assess_selection_timing_bias" =>
        /\ D3_pathway_a_falls_back(input) =>
              Marked(D3_assess_pathway_a(input)) \notin RuleMatchedA
        /\ D3_pathway_b_falls_back(input) =>
              Marked(D3_assess_pathway_b(input)) \notin RuleMatchedB


(***************************************************************************)
(* Properties of both overall combinators                                  *)
(***************************************************************************)

\* the severity order of the trial levels
TrialSeverity(risk) ==
    CASE risk = "Low" -> 1
      [] risk = "Some concerns" -> 2
      [] risk = "High" -> 3

\* the severity order of the exposure levels; Low with caveat counts as Low
ExposureSeverity(level) ==
    CASE level.value = "Low risk of bias" -> 1
      [] level.value = "Low risk of bias except for concerns about uncontrolled confounding" -> 1
      [] level.value = "Some concerns" -> 2
      [] level.value = "High risk of bias" -> 3
      [] level.value = "Very high risk of bias" -> 4

\* C28: both overall combinators are monotone in every domain: replacing
\* the level of one domain by a level at least as severe, the other domains
\* unchanged, gives an overall level at least as severe, for every
\* assignment of the three trial levels to the five trial domains and of
\* the four exposure levels to the seven exposure domains.
C28_Monotone ==
    /\ (op = "assess_overall_rob2" /\ output.status = "ok") =>
          \A i \in 1..5 : \A v \in valid_risks :
              TrialSeverity(v) >= TrialSeverity(Strip(input[i])) =>
                  TrialSeverity(assess_overall_rob2([input EXCEPT ![i] = v]).risk)
                      >= TrialSeverity(output.risk)
    /\ (op = "assess_overall_bias_risk" /\ \A k \in DomainKeys : input[k] \in DomainRisk) =>
          \A k \in DomainKeys : \A v \in DomainRisk :
              ExposureSeverity(v) >= ExposureSeverity(input[k]) =>
                  ExposureSeverity(assess_overall_bias_risk([input EXCEPT ![k] = v]).overall_risk)
                      >= ExposureSeverity(output.overall_risk)

\* C28 witness: a trial call with two Some concerns and three Low domains
\* returned Some concerns, and raising one more Low domain raises the
\* overall level to High
C28_Witness ==
    /\ op = "assess_overall_rob2"
    /\ output.status = "ok"
    /\ count(input, "Some concerns") = 2
    /\ count(input, "Low") = 3
    /\ output.risk = "Some concerns"
    /\ \E i \in 1..5 :
          /\ input[i] = "Low"
          /\ assess_overall_rob2([input EXCEPT ![i] = "Some concerns"]).risk = "High"


(***************************************************************************)
(* Properties of the timing pathway of the Selection/Timing domain         *)
(***************************************************************************)

\* the timing-pathway risk the answer to question 3.2 stands for
TimingRiskOf(q3_2) ==
    IF q3_2.value \in {"Y", "PY"} THEN PathwayRisk_LOW_RISK
    ELSE IF q3_2.value = "NI" THEN PathwayRisk_SOME_CONCERNS
    ELSE IF q3_2.value \in {"N", "PN"} THEN PathwayRisk_HIGH_RISK
    ELSE PathwayRisk_SOME_CONCERNS

\* C29: once questions 3.1 and 3.2 are both answered, the timing-pathway
\* risk depends on the answer to 3.2 alone (Y/PY Low, NI Some concerns,
\* N/PN High, any other token Some concerns), and replacing the answer to
\* 3.1 by any other token changes neither the timing-pathway risk nor the
\* risk level of the domain verdict.
C29_TimingDependsOn32Only ==
    (/\ op = "assess_selection_timing_bias"
     /\ input["q3_1_timing_coincide"] # None
     /\ input["q3_2_effect_constant"] # None) =>
        /\ output.pathway_a_risk = TimingRiskOf(input["q3_2_effect_constant"])
        /\ \A v \in D3_Response :
              LET changed == assess_selection_timing_bias([input EXCEPT !["q3_1_timing_coincide"] = v])
              IN  /\ changed.pathway_a_risk = output.pathway_a_risk
                  /\ changed.risk_level = output.risk_level

\* C29 witness: 3.1 was answered N and 3.2 Y, and the timing pathway is Low
C29_Witness ==
    /\ op = "assess_selection_timing_bias"
    /\ input["q3_1_timing_coincide"] = D3_Response_of("N")
    /\ input["q3_2_effect_constant"] = D3_Response_of("Y")
    /\ output.pathway_a_risk = PathwayRisk_LOW_RISK


(***************************************************************************)
(* Properties of the generic fallback of trial Domains 1 and 5             *)
(***************************************************************************)

\* C30: for every combination of Y, PY, PN, N, NI answers (in either case)
\* Domain 1 never returns the rationale of its generic fallback, every Some
\* concerns verdict of Domain 1 names at least one specific cause, and
\* Domain 5 never returns the rationale of its generic fallback.
C30_GenericFallbackUnreachable ==
    /\ (op = "assess_domain_1_randomization" /\ output.status = "ok") =>
          /\ output.reasoning #
                <<"Some concerns - intermediate risk scenario not meeting low or high risk criteria">>
          /\ output.risk = "Some concerns" =>
                /\ output.reasoning[1] = "Some concerns due to: "
                /\ Len(output.reasoning) >= 2
    /\ (op = "assess_domain_5_selective_reporting" /\ output.status = "ok") =>
          output.reasoning # <<"Unclear evidence regarding selective reporting practices">>

\* C30 witness: Domain 1 returned Some concerns for no information on the
\* sequence and on concealment with balanced groups, naming the one cause
C30_Witness ==
    /\ op = "assess_domain_1_randomization"
    /\ input = <<"NI", "NI", "N">>
    /\ output.status = "ok"
    /\ output.risk = "Some concerns"
    /\ output.reasoning = <<"Some concerns due to: ", "no information about allocation concealment">>

=============================================================================
